---------------------------- MODULE Spec2Model ----------------------------
(***************************************************************************)
(* Deep Net federation core: Hybrid Logical Clock (src/src/hlc.rs), peer   *)
(* registry and dedup cache (src/src/federation.rs), push pipeline         *)
(* (src/src/federation_sync.rs), signed events (src/src/crypto.rs) and the *)
(* mobile node (src/mobile/rust/deepnet-core/src): SyncManager (sync.rs),  *)
(* MemoryStore (store.rs), QUIC transport (quic.rs), identity files.       *)
(*                                                                         *)
(* The specifications of this module:                                      *)
(*   SpecHlc    - one HybridClock called from several threads              *)
(*   SpecCausal - several nodes exchanging HLC timestamps                  *)
(*   SpecReg    - one FederationState: registration, removal, policy       *)
(*   SpecPush   - one FederationState: inbound push batches                *)
(*   SpecAuth   - registration with an intruder on the network             *)
(*   SpecMutual - two nodes registering with each other                    *)
(*   SpecLimit  - the peer limit under overlapping registrations           *)
(*   SpecPeers  - registry entries: removal, pull endpoint, sync cursor    *)
(*   SpecFanout - push_to_all_peers                                        *)
(*   SpecPull   - pull_from_all_peers                                      *)
(*   SpecVc     - VectorClock applied to every pair of clocks              *)
(*   SpecSync   - one SyncManager: process_incoming, tick                  *)
(*   SpecVerify - SignedEvent::sign and verify on every event              *)
(*   SpecForward - forwarding decisions for envelopes of every layer       *)
(*   SpecOutbound - the SyncManager's outbound queues, two threads         *)
(*   SpecWhatsNew - whats_new_since against a ticking, merging clock       *)
(*   SpecStore  - the MemoryStore's direct messages and read markers       *)
(*   SpecQuic, SpecQuicLive - one QUIC connection, without and with        *)
(*                fairness of the recv calls                               *)
(*   SpecIdentity - identity files: load, generate, damage                 *)
(*   SpecLww, SpecGCounter - the LwwRegister and GCounter replicas         *)
(*   SpecLocks, SpecFederationLocks - the RwLocks of FederationState,      *)
(*                PairingState and SyncManager, without and with fair      *)
(*                scheduling of the tasks                                  *)
(*   SpecPushRace - process_push calls running beside each other           *)
(*   SpecIncomingRace - process_incoming calls running beside each other   *)
(*   SpecResume - the per-peer sync cursor against a peer that serves its  *)
(*                log in batches                                           *)
(*   SpecStamp  - prepare_outbound against a clock that merges received    *)
(*                clocks, components at the width of u64                   *)
(*   SpecSince  - get_messages_since on the MemoryStore                    *)
(***************************************************************************)
EXTENDS Integers, Sequences, FiniteSets, TLC

(***************************************************************************)
(* Bounds of the model.                                                    *)
(***************************************************************************)
\* wall-clock readings are drawn from 1..MaxWall (any order: the wall clock
\* may stand still or go backwards between two readings)
MaxWall == 2
\* calls made on the clock in one behaviour of SpecHlc
MaxCalls == 4
\* calls made on the clocks in one behaviour of SpecCausal
MaxHops == 4
\* SpecPush: events per batch, and process_push calls
MaxBatch == 2
MaxPushes == 2
\* SpecSync: SyncConfig.max_seen_messages (10 000 by default, any value through
\* with_config), and the ticks of the local vector clock
MaxSeenMessages == 2
MaxTicks == 2
\* SpecPeers: requests served by the pull endpoint
MaxPulls == 2
\* SpecFanout: push_to_all_peers calls
MaxFanouts == 2
\* SpecPull: pull_from_all_peers calls, and the head sequences peers report
MaxPullRuns == 1
MaxHeadSeq == 2
\* SpecVc: largest component of a vector clock
MaxComponent == 2
\* largest TTL of an envelope that arrives
MaxTtl == 1
\* message ids the store is given
MaxStored == 2
\* envelopes one side of a QUIC connection sends
MaxSent == 2
\* frames a foreign peer writes onto a stream
MaxWritten == 2
\* SyncConfig::max_outbound_queue of the manager under test
MaxOutboundQueue == 2
\* prepare_outbound calls of one run
MaxPrepared == 3
\* largest limit handed to get_gossip_batch / get_peer_sync_batch
MaxLimit == 2
\* calls one task makes, one after the other
MaxTaskCalls == 1
\* largest value() a GCounter replica counts on from
MaxIncrements == 2
\* largest max_peers the policy is set to when the limit is exercised
MaxPolicy == 2

(***************************************************************************)
(* Program constants.                                                      *)
(***************************************************************************)
\* hlc.rs:22  const MAX_DRIFT_US: u64 = 60_000_000
MAX_DRIFT_US == 60000000
\* hlc.rs:36  counter: u32 -- kept at its width as two 16-bit limbs
\* (hi * 2^16 + lo); 2^16 is the limb base
LIMB == 65536

(***************************************************************************)
(* u32 arithmetic on the counter.                                          *)
(***************************************************************************)
U32(hi, lo) == [hi |-> hi, lo |-> lo]
U32Zero == U32(0, 0)
U32_MAX == U32(LIMB - 1, LIMB - 1)
U32PredMax == U32(LIMB - 1, LIMB - 2)

U32Less(a, b) == a.hi < b.hi \/ (a.hi = b.hi /\ a.lo < b.lo)

\* u32::max
U32MaxOf(a, b) == IF U32Less(a, b) THEN b ELSE a

\* c + 1 overflows u32
U32IncOverflows(c) == c = U32_MAX

\* c + 1 as the build without overflow checks computes it (wrapping)
U32WrappingInc(c) ==
    IF c.lo + 1 < LIMB
    THEN U32(c.hi, c.lo + 1)
    ELSE U32((c.hi + 1) % LIMB, 0)

(***************************************************************************)
(* HlcTimestamp                                                            *)
(***************************************************************************)
HlcTs(p, c, n) == [physical_time_us |-> p, counter |-> c, node_id |-> n]

\* HlcTimestamp::zero
HlcZero(node_id) == HlcTs(0, U32Zero, node_id)

\* Ord for HlcTimestamp: physical_time_us, then counter, then node_id
HlcLess(a, b) ==
    \/ a.physical_time_us < b.physical_time_us
    \/ /\ a.physical_time_us = b.physical_time_us
       /\ \/ U32Less(a.counter, b.counter)
          \/ (a.counter = b.counter /\ a.node_id < b.node_id)

(***************************************************************************)
(* HybridClock: the code run while the state mutex is held.  `checks` is   *)
(* the build's overflow-checks setting: with it `+ 1` on u32::MAX panics   *)
(* (the guard is dropped during unwinding, poisoning the mutex), without   *)
(* it the addition wraps.                                                  *)
(***************************************************************************)
Outcome(state, panic) == [state |-> state, panic |-> panic]

\* `counter = c + 1` applied to `state` (an assignment already made to
\* physical_time_us stays made when the addition panics)
SetCounterInc(state, c, checks) ==
    IF U32IncOverflows(c) /\ checks
    THEN Outcome(state, TRUE)
    ELSE Outcome([state EXCEPT !.counter = U32WrappingInc(c)], FALSE)

\* HybridClock::tick, lines 139-146
TickLocked(state, now_us, checks) ==
    IF now_us > state.physical_time_us
    THEN Outcome([state EXCEPT !.physical_time_us = now_us,
                               !.counter = U32Zero], FALSE)
    ELSE SetCounterInc(state, state.counter, checks)

\* faulty variant of DriftExceeded: a remote exactly MAX_DRIFT_US ahead is rejected too
DriftExceeded_AtBound(remote, now_us) ==
    remote.physical_time_us >= now_us + MAX_DRIFT_US

\* HybridClock::receive, line 164: the drift check, made before locking
DriftExceeded(remote, now_us) ==
    remote.physical_time_us > now_us + MAX_DRIFT_US

\* HybridClock::receive, lines 175-193
ReceiveLocked(state, remote, now_us, checks) ==
    LET old_physical == state.physical_time_us IN
    IF now_us > old_physical /\ now_us > remote.physical_time_us
    THEN Outcome([state EXCEPT !.physical_time_us = now_us,
                               !.counter = U32Zero], FALSE)
    ELSE IF old_physical = remote.physical_time_us
    THEN SetCounterInc(state, U32MaxOf(state.counter, remote.counter), checks)
    ELSE IF old_physical > remote.physical_time_us
    THEN SetCounterInc(state, state.counter, checks)
    ELSE SetCounterInc([state EXCEPT !.physical_time_us = remote.physical_time_us],
                       remote.counter, checks)

\* A HybridClock is its state and whether its mutex is poisoned.
Clock(state, pois) == [state |-> state, poisoned |-> pois]

ClockResult(ret, clock) == [ret |-> ret, clock |-> clock]

\* HybridClock::tick with wall-clock reading now_us: "ok" (the new state is
\* returned) or "panic"
ClockTick(c, now_us, checks) ==
    LET r == TickLocked(c.state, now_us, checks) IN
    IF c.poisoned
    THEN ClockResult("panic", c)                      \* lock().unwrap()
    ELSE ClockResult(IF r.panic THEN "panic" ELSE "ok", Clock(r.state, r.panic))

\* HybridClock::receive with wall-clock reading now_us: "drift"
\* (Err(HlcDriftError), returned before the mutex is touched), "ok" or "panic"
ClockReceive(c, remote, now_us, checks) ==
    LET r == ReceiveLocked(c.state, remote, now_us, checks) IN
    IF DriftExceeded(remote, now_us)
    THEN ClockResult("drift", c)
    ELSE IF c.poisoned
    THEN ClockResult("panic", c)                      \* lock().unwrap()
    ELSE ClockResult(IF r.panic THEN "panic" ELSE "ok", Clock(r.state, r.panic))

(***************************************************************************)
(* Signed events (crypto.rs).  Ed25519 and SHA-256 are taken as ideal: a   *)
(* signature verifies under a public key exactly when the holder of that   *)
(* key's secret made it over the same message, and distinct byte strings   *)
(* have distinct digests.                                                  *)
(***************************************************************************)
\* valid Ed25519 public keys of remote parties
Keys == {"kA", "kB"}
\* identity.public_key() of the node whose FederationState is modelled
SelfKey == "kS"
\* 32 bytes that are no valid public key (VerifyingKey::from_bytes fails)
BadKey == "kX"

\* event payloads: the empty one and two others
EmptyBytes == << >>
Payloads == {<<1>>, <<2>>}

\* TeambookIdentity::sign: the signature of the holder of `key` over `msg`
Sign(key, msg) == [signer |-> key, msg |-> msg]

\* crypto::verify_signature
VerifySignature(public_key, message, signature) ==
    /\ public_key \in Keys \cup {SelfKey}
    /\ signature = Sign(public_key, message)

\* crypto::content_hash (SHA-256)
ContentHash(event_bytes) == <<"sha256", event_bytes>>

\* hex::encode
HexEncode(bytes) == <<"hex", bytes>>

SignedEvent(event_bytes, origin_pubkey, signature, content_id) ==
    [event_bytes |-> event_bytes, origin_pubkey |-> origin_pubkey,
     signature |-> signature, content_id |-> content_id]

\* SignedEvent::sign
SignedEventSign(event_bytes, identity) ==
    SignedEvent(event_bytes, identity, Sign(identity, event_bytes),
                ContentHash(event_bytes))

\* faulty variant of SignedEventVerify: the signature is not looked at
SignedEventVerify_HashOnly(event) ==
    IF ContentHash(event.event_bytes) # event.content_id
    THEN "ContentHashMismatch"
    ELSE "Ok"

\* faulty variant of SignedEventVerify: signature first, then content hash
SignedEventVerify_SigFirst(event) ==
    IF ~VerifySignature(event.origin_pubkey, event.event_bytes, event.signature)
    THEN "InvalidSignature"
    ELSE IF ContentHash(event.event_bytes) # event.content_id
    THEN "ContentHashMismatch"
    ELSE "Ok"

\* SignedEvent::verify: content hash first, then signature
SignedEventVerify(event) ==
    IF ContentHash(event.event_bytes) # event.content_id
    THEN "ContentHashMismatch"
    ELSE IF ~VerifySignature(event.origin_pubkey, event.event_bytes, event.signature)
    THEN "InvalidSignature"
    ELSE "Ok"

\* SignedEvent::content_id_hex
ContentIdHex(event) == HexEncode(event.content_id)

\* SignedEvent::origin_pubkey_hex
OriginPubkeyHex(event) == HexEncode(event.origin_pubkey)

(***************************************************************************)
(* Peer registry and dedup cache (federation.rs), as operations on the     *)
(* maps behind the RwLocks.                                                *)
(***************************************************************************)
\* PeerInfo: the fields the modelled operations read or write (display_name
\* and registered_at are written once and never read)
PeerInfo(status, last_seen_at, initiated_by_us, endpoint) ==
    [status |-> status, last_seen_at |-> last_seen_at,
     last_synced_seq |-> 0, initiated_by_us |-> initiated_by_us,
     endpoint |-> endpoint]

\* HashMap::insert
MapInsert(m, k, v) == [x \in DOMAIN m \cup {k} |-> IF x = k THEN v ELSE m[x]]

EmptyMap == [x \in {} |-> 0]

\* faulty variant of IsKnownPeer: a Removed peer still counts as known
IsKnownPeer_AnyStatus(ps, pubkey) == HexEncode(pubkey) \in DOMAIN ps

\* FederationState::is_known_peer
IsKnownPeer(ps, pubkey) ==
    LET hex == HexEncode(pubkey) IN
    IF hex \in DOMAIN ps THEN ps[hex].status # "Removed" ELSE FALSE

\* handle_registration, lines 290-293 (also list_peers, status.peers_total)
ActiveCount(ps) == Cardinality({h \in DOMAIN ps : ps[h].status # "Removed"})

\* FederationState::remove_peer
RemovePeerIn(ps, pubkey_hex) ==
    IF pubkey_hex \in DOMAIN ps
    THEN [ps EXCEPT ![pubkey_hex].status = "Removed"]
    ELSE ps

\* FederationState::touch_peer
TouchPeer(ps, pubkey_hex, now_us) ==
    IF pubkey_hex \in DOMAIN ps
    THEN [ps EXCEPT ![pubkey_hex].last_seen_at = now_us,
                    ![pubkey_hex].status = "Online"]
    ELSE ps

\* FederationState::list_peers: the keys of the entries it returns
ListPeers(ps) == {h \in DOMAIN ps : ps[h].status # "Removed"}

\* FederationState::get_peer: << >> is None
GetPeer(ps, pubkey_hex) == IF pubkey_hex \in DOMAIN ps THEN ps[pubkey_hex] ELSE << >>

\* FederationState::status().peers_total
PeersTotal(ps) == Cardinality({h \in DOMAIN ps : ps[h].status # "Removed"})

\* faulty variant of UpdatePeerSyncSeqIn: a Removed entry is left alone
UpdatePeerSyncSeqIn_UnlessRemoved(ps, pubkey_hex, seq) ==
    IF pubkey_hex \in ListPeers(ps)
    THEN [ps EXCEPT ![pubkey_hex].last_synced_seq = seq]
    ELSE ps

\* FederationState::update_peer_sync_seq
UpdatePeerSyncSeqIn(ps, pubkey_hex, seq) ==
    IF pubkey_hex \in DOMAIN ps
    THEN [ps EXCEPT ![pubkey_hex].last_synced_seq = seq]
    ELSE ps

\* FederationState::is_new_event
IsNewEvent(seen, content_hash_hex) == content_hash_hex \notin DOMAIN seen

\* FederationState::mark_event_seen
MarkEventSeen(seen, content_hash_hex, now_us) ==
    MapInsert(seen, content_hash_hex, now_us)

\* u64::saturating_sub
SaturatingSub(a, b) == IF a > b THEN a - b ELSE 0

\* FederationState::prune_seen_events
PruneSeenEvents(seen, max_age_us, now_us) ==
    LET cutoff == SaturatingSub(now_us, max_age_us)
        kept == {h \in DOMAIN seen : seen[h] > cutoff}
    IN  [h \in kept |-> seen[h]]

(***************************************************************************)
(* Registration (federation.rs)                                            *)
(***************************************************************************)
\* federation.rs:273  a challenge signature is 64 bytes
SIGNATURE_LEN == 64
\* federation.rs:144  FederationPolicy::default().max_peers
DEFAULT_MAX_PEERS == 10

\* A challenge_signature string: hex or not, and when hex the bytes it
\* encodes (their number and, when they are a signature, which one).
SigString(is_hex, len, sig) == [is_hex |-> is_hex, len |-> len, sig |-> sig]

\* hex::encode of a 64-byte signature
HexEncodeSig(sig) == SigString(TRUE, SIGNATURE_LEN, sig)

\* hex::decode
HexDecode(str) == [ok |-> str.is_hex, len |-> str.len, bytes |-> str.sig]

RegistrationRequest(public_key, endpoint, nonce, sigstr) ==
    [public_key |-> public_key, endpoint |-> endpoint,
     challenge_nonce |-> nonce, challenge_signature |-> sigstr]

\* the endpoint at which the node holding `key` listens
EndpointOf(key) == <<"endpoint", key>>

\* PeerRegistrationResponse; reason << >> is None
RegistrationResponse(accepted, reason, public_key, endpoint, nonce, sigstr) ==
    [accepted |-> accepted, reason |-> reason, public_key |-> public_key,
     endpoint |-> endpoint, challenge_nonce |-> nonce,
     challenge_signature |-> sigstr]

\* String::new() as a challenge_signature: hex of no bytes
EmptySigString == SigString(TRUE, 0, Sign(SelfKey, ""))

\* FederationState::reject_registration
RejectRegistration(reason) ==
    RegistrationResponse(FALSE, reason, SelfKey, EndpointOf(SelfKey), "",
                         EmptySigString)

\* handle_registration, lines 332-344: the accepting response, with this
\* node's own signed challenge
AcceptRegistration ==
    RegistrationResponse(TRUE, << >>, SelfKey, EndpointOf(SelfKey), "nonce",
                         HexEncodeSig(Sign(SelfKey, "nonce")))

\* faulty variant of RegistrationCheck: the peer limit is looked at first
RegistrationCheck_LimitFirst(ps, max_peers, req) ==
    LET decoded == HexDecode(req.challenge_signature)
        active_count == ActiveCount(ps)
    IN  IF max_peers > 0 /\ active_count >= max_peers
        THEN <<"peer limit reached", active_count, max_peers>>
        ELSE IF ~(decoded.ok /\ decoded.len = SIGNATURE_LEN)
        THEN <<"invalid challenge signature format">>
        ELSE IF ~VerifySignature(req.public_key, req.challenge_nonce, decoded.bytes)
        THEN <<"challenge signature verification failed">>
        ELSE <<"accept">>

\* handle_registration, lines 270-300: the reason for rejecting `req`, or
\* "accept"
RegistrationCheck(ps, max_peers, req) ==
    LET decoded == HexDecode(req.challenge_signature)
        active_count == ActiveCount(ps)
    IN  IF ~(decoded.ok /\ decoded.len = SIGNATURE_LEN)
        THEN <<"invalid challenge signature format">>
        ELSE IF ~VerifySignature(req.public_key, req.challenge_nonce, decoded.bytes)
        THEN <<"challenge signature verification failed">>
        ELSE IF max_peers > 0 /\ active_count >= max_peers
        THEN <<"peer limit reached", active_count, max_peers>>
        ELSE <<"accept">>

\* Result<(), String>
Ok == [ok |-> TRUE, err |-> << >>]
Err(e) == [ok |-> FALSE, err |-> e]

\* faulty variant of RegistrationResponseCheck: `accepted` is not looked at
RegistrationResponseCheck_IgnoresAccepted(resp) ==
    LET decoded == HexDecode(resp.challenge_signature) IN
    IF ~decoded.ok
    THEN Err(<<"invalid signature format">>)
    ELSE IF decoded.len # SIGNATURE_LEN
    THEN Err(<<"invalid signature length">>)
    ELSE IF ~VerifySignature(resp.public_key, resp.challenge_nonce, decoded.bytes)
    THEN Err(<<"challenge signature verification failed">>)
    ELSE Ok

\* handle_registration_response, lines 366-388: the result of the call
RegistrationResponseCheck(resp) ==
    LET decoded == HexDecode(resp.challenge_signature) IN
    IF ~resp.accepted
    THEN Err(IF resp.reason = << >> THEN <<"registration rejected">>
                                    ELSE resp.reason)
    ELSE IF ~decoded.ok
    THEN Err(<<"invalid signature format">>)
    ELSE IF decoded.len # SIGNATURE_LEN
    THEN Err(<<"invalid signature length">>)
    ELSE IF ~VerifySignature(resp.public_key, resp.challenge_nonce, decoded.bytes)
    THEN Err(<<"challenge signature verification failed">>)
    ELSE Ok

\* handle_registration_response, lines 390-414: the registry after the call
RegistrationResponseInsert(ps, resp, now_us) ==
    IF RegistrationResponseCheck(resp).ok
    THEN MapInsert(ps, HexEncode(resp.public_key),
                   PeerInfo("Online", now_us, TRUE, resp.endpoint))
    ELSE ps

(***************************************************************************)
(* process_push (federation_sync.rs): the body of the loop over the batch  *)
(***************************************************************************)
SyncError(index, content_id, reason) ==
    [index |-> index, content_id |-> content_id, reason |-> reason]

\* lines 158-161 and the loop position; `drift` remembers whether
\* clock.receive(sender_hlc) failed (line 164)
PushStart(drift) ==
    [active |-> TRUE, n |-> 0, accepted |-> 0, duplicates |-> 0,
     rejected |-> 0, errors |-> << >>, drift |-> drift]

NoPush ==
    [active |-> FALSE, n |-> 0, accepted |-> 0, duplicates |-> 0,
     rejected |-> 0, errors |-> << >>, drift |-> FALSE]

PushReject(p, content_id_hex, reason) ==
    [p EXCEPT !.n = @ + 1,
              !.rejected = @ + 1,
              !.errors = Append(@, SyncError(p.n, content_id_hex, reason))]

StepResult(p, ps, seen) == [push |-> p, peers |-> ps, seen |-> seen]

\* faulty variant of PushEventStep: one rejected event poisons the rest of the batch
PushEventStep_Poisoned(p, ps, seen, event, t_seen, t_touch) ==
    IF p.rejected > 0 \/ SignedEventVerify(event) # "Ok"
          \/ event.event_bytes = EmptyBytes \/ ~IsKnownPeer(ps, event.origin_pubkey)
    THEN StepResult(PushReject(p, ContentIdHex(event), "MalformedEvent"), ps, seen)
    ELSE IF ~IsNewEvent(seen, ContentIdHex(event))
    THEN StepResult([p EXCEPT !.n = @ + 1, !.duplicates = @ + 1], ps, seen)
    ELSE StepResult([p EXCEPT !.n = @ + 1, !.accepted = @ + 1],
                    TouchPeer(ps, OriginPubkeyHex(event), t_touch),
                    MarkEventSeen(seen, ContentIdHex(event), t_seen))

\* faulty variant of PushEventStep: a duplicate refreshes the cache entry and
\* touches the peer
PushEventStep_DupTouches(p, ps, seen, event, t_seen, t_touch) ==
    IF event.event_bytes = EmptyBytes
    THEN StepResult(PushReject(p, ContentIdHex(event), "MalformedEvent"), ps, seen)
    ELSE IF SignedEventVerify(event) # "Ok"
    THEN StepResult(PushReject(p, ContentIdHex(event), SignedEventVerify(event)), ps, seen)
    ELSE IF ~IsKnownPeer(ps, event.origin_pubkey)
    THEN StepResult(PushReject(p, ContentIdHex(event), "UnknownPeer"), ps, seen)
    ELSE StepResult(IF IsNewEvent(seen, ContentIdHex(event))
                    THEN [p EXCEPT !.n = @ + 1, !.accepted = @ + 1]
                    ELSE [p EXCEPT !.n = @ + 1, !.duplicates = @ + 1],
                    TouchPeer(ps, OriginPubkeyHex(event), t_touch),
                    MarkEventSeen(seen, ContentIdHex(event), t_seen))

\* process_push, lines 169-244: one iteration, for the event at index p.n.
\* t_seen and t_touch are the wall-clock readings of mark_event_seen and
\* touch_peer.
PushEventStep(p, ps, seen, event, t_seen, t_touch) ==
    LET content_id_hex == ContentIdHex(event)
        verified == SignedEventVerify(event)
    IN  IF event.event_bytes = EmptyBytes
        THEN StepResult(PushReject(p, content_id_hex, "MalformedEvent"), ps, seen)
        ELSE IF verified # "Ok"
        THEN StepResult(PushReject(p, content_id_hex, verified), ps, seen)
        ELSE IF ~IsKnownPeer(ps, event.origin_pubkey)
        THEN StepResult(PushReject(p, content_id_hex, "UnknownPeer"), ps, seen)
        ELSE IF ~IsNewEvent(seen, content_id_hex)
        THEN StepResult([p EXCEPT !.n = @ + 1, !.duplicates = @ + 1], ps, seen)
        ELSE StepResult([p EXCEPT !.n = @ + 1, !.accepted = @ + 1],
                        TouchPeer(ps, OriginPubkeyHex(event), t_touch),
                        MarkEventSeen(seen, content_id_hex, t_seen))

\* the locals of a process_push call that runs beside others: the request's
\* events, the counters, and the await the call has reached in the loop body
PushCall(events, stage, p) ==
    [events |-> events, stage |-> stage, active |-> p.active, n |-> p.n,
     accepted |-> p.accepted, duplicates |-> p.duplicates,
     rejected |-> p.rejected, errors |-> p.errors, drift |-> p.drift]

NoPushCall == PushCall(<< >>, "none", NoPush)

\* the tasks that serve push requests
Pushers == {1, 2}

EventPushResponse(accepted, duplicates, rejected, errors, receiver_hlc) ==
    [accepted |-> accepted, duplicates |-> duplicates, rejected |-> rejected,
     errors |-> errors, receiver_hlc |-> receiver_hlc, receiver_head_seq |-> 0]

\* the calls other than t's have seen the registry or the dedup cache change
Disturbed(w, t) ==
    [u \in DOMAIN w |-> IF u # t /\ w[u] = "undisturbed" THEN "disturbed" ELSE w[u]]

\* process_push, lines 170-221: the checks of one iteration up to and
\* including is_known_peer; the iteration ends with a rejection or goes on
\* to the dedup check
PushCheckStep(c, ps) ==
    LET event == c.events[c.n + 1]
        content_id_hex == ContentIdHex(event)
        verified == SignedEventVerify(event)
    IN  IF event.event_bytes = EmptyBytes
        THEN PushReject(c, content_id_hex, "MalformedEvent")
        ELSE IF verified # "Ok"
        THEN PushReject(c, content_id_hex, verified)
        ELSE IF ~IsKnownPeer(ps, event.origin_pubkey)
        THEN PushReject(c, content_id_hex, "UnknownPeer")
        ELSE [c EXCEPT !.stage = "is_new_event"]

\* a dedup check that never finds the event
PushDedupStep_AlwaysNew(c, seen) == [c EXCEPT !.stage = "mark_event_seen"]

\* process_push, lines 224-227: is_new_event
PushDedupStep(c, seen) ==
    IF ~IsNewEvent(seen, ContentIdHex(c.events[c.n + 1]))
    THEN [c EXCEPT !.n = @ + 1, !.duplicates = @ + 1, !.stage = "checks"]
    ELSE [c EXCEPT !.stage = "mark_event_seen"]

(***************************************************************************)
(* VectorClock (message.rs) and the body of SyncManager::process_incoming  *)
(* (sync.rs)                                                               *)
(***************************************************************************)
\* VectorClock::new
VectorClockNew == [x \in {} |-> 0]

\* VectorClock::get
VcGet(vc, node_id) == IF node_id \in DOMAIN vc THEN vc[node_id] ELSE 0

\* VectorClock::increment
VcIncrement(vc, node_id) == MapInsert(vc, node_id, VcGet(vc, node_id) + 1)

\* faulty variant of VcMerge: the other clock's component replaces ours
VcMerge_Overwrites(vc, other) ==
    [x \in DOMAIN vc \cup DOMAIN other |->
        IF x \in DOMAIN other THEN other[x] ELSE vc[x]]

\* VectorClock::merge: entry(node).or_insert(0), then the larger of the two
VcMerge(vc, other) ==
    [x \in DOMAIN vc \cup DOMAIN other |->
        IF x \in DOMAIN other
        THEN (IF VcGet(vc, x) > other[x] THEN VcGet(vc, x) ELSE other[x])
        ELSE vc[x]]

\* faulty variant of HappenedBefore: only the entries of self are looked at
HappenedBefore_SelfEntriesOnly(vc, other) ==
    IF \E n \in DOMAIN vc : vc[n] > VcGet(other, n)
    THEN FALSE
    ELSE \E n \in DOMAIN vc : vc[n] < VcGet(other, n)

\* VectorClock::happened_before: the loop over the entries of self, which
\* returns false at an entry later than other's, then the loop over the
\* entries of other that self lacks
HappenedBefore(vc, other) ==
    IF \E n \in DOMAIN vc : vc[n] > VcGet(other, n)
    THEN FALSE
    ELSE \/ \E n \in DOMAIN vc : vc[n] < VcGet(other, n)
         \/ \E n \in DOMAIN other : n \notin DOMAIN vc /\ other[n] > 0

\* VectorClock::is_concurrent
IsConcurrent(vc, other) == ~HappenedBefore(vc, other) /\ ~HappenedBefore(other, vc)

Envelope(id, clock, layer, ttl) ==
    [id |-> id, clock |-> clock, layer |-> layer, ttl |-> ttl]

\* DataLayer
Layers == <<"Private", "Shared", "Federated">>

\* faulty variant of ShouldForward: the TTL is not looked at
ShouldForward_IgnoresTtl(msg) == msg.layer = "Federated"

\* MessageEnvelope::should_forward
ShouldForward(msg) == msg.ttl > 0 /\ msg.layer = "Federated"

\* SyncDecision
AlreadySeen == [decision |-> "AlreadySeen", should_forward |-> FALSE]
Process(should_forward) == [decision |-> "Process", should_forward |-> should_forward]

\* the halves `seen.iter().take(seen.len() / 2)` can yield: a HashSet iterates
\* in no fixed order, so any len/2 of its elements
Halves(seen) == { h \in SUBSET seen : Cardinality(h) = Cardinality(seen) \div 2 }

IncomingResult(seen, clock, decision) ==
    [seen |-> seen, clock |-> clock, decision |-> decision]

\* faulty variant of ProcessIncomingStep: the seen set is not consulted
ProcessIncomingStep_NoDedup(seen, vc, msg, max_seen_messages, to_remove) ==
    IncomingResult(seen \cup {msg.id}, VcMerge(vc, msg.clock),
                   Process(msg.layer = "Federated" /\ msg.ttl > 0))

\* SyncManager::process_incoming, lines 140-171; to_remove is the half the
\* eviction picks when the set has outgrown max_seen_messages
ProcessIncomingStep(seen, vc, msg, max_seen_messages, to_remove) ==
    LET inserted == seen \cup {msg.id} IN
    IF msg.id \in seen
    THEN IncomingResult(seen, vc, AlreadySeen)
    ELSE IncomingResult(IF Cardinality(inserted) > max_seen_messages
                        THEN inserted \ to_remove
                        ELSE inserted,
                        VcMerge(vc, msg.clock),
                        Process(msg.layer = "Federated" /\ msg.ttl > 0))

\* process_incoming, lines 150-162: under the write lock the id is inserted
\* and, when the set has outgrown max_seen_messages, half of it removed
SeenInsert(seen, id, max_seen_messages, to_remove) ==
    LET inserted == seen \cup {id} IN
    IF Cardinality(inserted) > max_seen_messages THEN inserted \ to_remove
                                                 ELSE inserted

\* a process_incoming call of one thread: its envelope, the lock it takes
\* next, and the calls the thread has finished
Incoming(msg, stage, calls) == [msg |-> msg, stage |-> stage, calls |-> calls]
NoIncoming(calls) == Incoming(Envelope(0, VectorClockNew, "Private", 0), "none", calls)

\* the decisions returned for one envelope id
Decided(process, already) == [process |-> process, already |-> already]
DecisionsOf(ds, id) == IF id \in DOMAIN ds THEN ds[id] ELSE Decided(0, 0)

(***************************************************************************)
(* push_to_all_peers (federation_sync.rs): the locals of a call            *)
(***************************************************************************)
\* a spawned push_to_peer task: its arguments and how far it is ("running",
\* or finished with "ok" or "err")
PushTask(peer, sender_hlc) ==
    [peer |-> peer, sender_hlc |-> sender_hlc, sender_head_seq |-> 0,
     state |-> "running"]

\* `registry` is the peer map list_peers() read, `handles` the tasks in the
\* order they were spawned, `awaited` the number of handles awaited so far
Fanout(registry, sender_hlc, handles) ==
    [active |-> TRUE, registry |-> registry, sender_hlc |-> sender_hlc,
     handles |-> handles, awaited |-> 0, results |-> << >>]

NoFanout ==
    [active |-> FALSE, registry |-> EmptyMap, sender_hlc |-> HlcZero(0),
     handles |-> << >>, awaited |-> 0, results |-> << >>]

\* the orders in which a Vec collected from a HashMap may list the keys S
Orders(S) ==
    { o \in [1..Cardinality(S) -> S] :
        \A i, j \in 1..Cardinality(S) : o[i] = o[j] => i = j }

\* push_to_all_peers, lines 399-413: one task per listed peer, Removed ones
\* skipped
SpawnAll(registry, order, sender_hlc) ==
    LET spawn == SelectSeq(order, LAMBDA h : registry[h].status # "Removed")
    IN  [i \in 1..Len(spawn) |-> PushTask(spawn[i], sender_hlc)]

\* faulty variant of AwaitHandle: an error ends the collection
AwaitHandle_StopsAtError(f) ==
    LET task == f.handles[f.awaited + 1] IN
    IF task.state = "err"
    THEN [f EXCEPT !.awaited = Len(f.handles)]
    ELSE [f EXCEPT !.awaited = f.awaited + 1,
                   !.results = Append(f.results,
                                      [peer_id |-> task.peer, result |-> task.state])]

\* push_to_all_peers, lines 415-428: one turn of the loop over the handles
AwaitHandle(f) ==
    LET task == f.handles[f.awaited + 1] IN
    [f EXCEPT !.awaited = f.awaited + 1,
              !.results = Append(f.results,
                                 [peer_id |-> task.peer, result |-> task.state])]

(***************************************************************************)
(* pull_from_all_peers (federation_sync.rs): the locals of a call          *)
(***************************************************************************)
\* `order` is the peers list_peers() returned, each entry as it was read;
\* `index` the position of the loop; `response` the EventPullResponse being
\* processed (<< >> when none); `npush0` the process_push calls begun before
\* it arrived
Pulling(order, index, response, npush0, results) ==
    [active |-> TRUE, order |-> order, index |-> index, response |-> response,
     npush0 |-> npush0, results |-> results]

NoPulling ==
    [active |-> FALSE, order |-> << >>, index |-> 0, response |-> << >>,
     npush0 |-> 0, results |-> << >>]

\* a listed peer as the loop holds it
Listed(ps, h) == [pubkey_hex |-> h, status |-> ps[h].status,
                  last_synced_seq |-> ps[h].last_synced_seq]

\* EventPullResponse as sent by a remote peer
RemotePullResponse(events, head_seq, sender_hlc) ==
    [events |-> events, head_seq |-> head_seq, has_more |-> FALSE,
     sender_hlc |-> sender_hlc]

\* pull_from_all_peers, line 453: the limit of every pull request
PULL_LIMIT == 100

\* the event a peer's log holds under sequence number seq
LoggedEvent(key, seq) == SignedEventSign(<<seq>>, key)

\* the EventPullResponse of a peer whose log has head sequence head_seq, to a
\* request with since_seq: the count events that follow since_seq
ServedPullResponse(key, head_seq, since_seq, count, sender_hlc) ==
    [events |-> [i \in 1..count |-> LoggedEvent(key, since_seq + i)],
     head_seq |-> head_seq,
     has_more |-> since_seq + count < head_seq,
     sender_hlc |-> sender_hlc]

\* the numbers of events a peer may answer a request with: no more than
\* asked for, than it has beyond since_seq, and than one response carries
ServedCounts(head_seq, since_seq, limit) ==
    { n \in 0..MaxBatch : n <= limit /\ since_seq + n <= head_seq }

(***************************************************************************)
(* SyncManager outbound queues (sync.rs): the bodies of prepare_outbound,  *)
(* get_gossip_batch and get_peer_sync_batch over one queue.                *)
(***************************************************************************)
\* SyncConfig::default().default_ttl
DEFAULT_TTL == 3

\* MessagePayload, as far as prepare_outbound looks at it
Broadcast == [kind |-> "Broadcast", to |-> "none"]
DirectMessage(to) == [kind |-> "DirectMessage", to |-> to]

MessageEnvelope(origin, clock, layer, ttl, payload) ==
    [origin |-> origin, clock |-> clock, layer |-> layer, ttl |-> ttl,
     payload |-> payload]

NoEnvelope == MessageEnvelope("none", VectorClockNew, "None", 0, Broadcast)

\* prepare_outbound, lines 175-182: clock, origin and default TTL
Stamp(msg, clock, node_id, default_ttl) ==
    [msg EXCEPT !.clock = clock,
                !.origin = node_id,
                !.ttl = IF msg.ttl = 0 /\ msg.layer = "Federated"
                        THEN default_ttl ELSE msg.ttl]

GossipQueue == <<"gossip">>
SharedQueue(to) == <<"shared", to>>
NoQueue == <<"none">>

\* faulty variant of QueueFor: every Shared envelope is queued for payload.to
QueueFor_AnySharedPayload(msg) ==
    IF msg.layer = "Federated" THEN GossipQueue
    ELSE IF msg.layer = "Shared" THEN SharedQueue(msg.payload.to)
    ELSE NoQueue

\* prepare_outbound, lines 185-205: the queue `match msg.layer` picks
QueueFor(msg) ==
    IF msg.layer = "Federated" THEN GossipQueue
    ELSE IF msg.layer = "Shared" /\ msg.payload.kind = "DirectMessage"
    THEN SharedQueue(msg.payload.to)
    ELSE NoQueue

\* faulty variant of PushIfRoom: a full queue gives up its oldest envelope
PushIfRoom_EvictsOldest(queue, msg, max_outbound_queue) ==
    IF Len(queue) < max_outbound_queue
    THEN Append(queue, msg)
    ELSE Append(Tail(queue), msg)

\* if queue.len() < max_outbound_queue { queue.push(msg.clone()) }
PushIfRoom(queue, msg, max_outbound_queue) ==
    IF Len(queue) < max_outbound_queue THEN Append(queue, msg) ELSE queue

\* limit.min(queue.len())
DrainCount(limit, queue) == IF limit < Len(queue) THEN limit ELSE Len(queue)

\* faulty variant of Drain: the newest envelopes leave first
Drain_NewestFirst(queue, limit) ==
    LET n == DrainCount(limit, queue) IN
    [batch |-> [i \in 1..n |-> queue[Len(queue) + 1 - i]],
     queue |-> SubSeq(queue, 1, Len(queue) - n)]

\* queue.drain(..drain_count).collect(): the batch and what stays queued
Drain(queue, limit) ==
    LET n == DrainCount(limit, queue) IN
    [batch |-> SubSeq(queue, 1, n), queue |-> SubSeq(queue, n + 1, Len(queue))]

\* outbound_shared.get(peer_id), an absent queue read as empty
SharedQueueOf(queues, peer_id) ==
    IF peer_id \in DOMAIN queues THEN queues[peer_id] ELSE << >>

(***************************************************************************)
(* SyncManager::whats_new_since and WhatsNew (sync.rs)                     *)
(***************************************************************************)
\* faulty variant of NewFrom: an origin level with `since` gets a range too
NewFrom_NotStrict(current, since) ==
    { <<n, VcGet(since, n) + 1, current[n]>> :
        n \in { m \in DOMAIN current : current[m] >= VcGet(since, m) } }

\* whats_new_since, lines 260-266: the tuples the loop over current.clocks
\* pushes
NewFrom(current, since) ==
    { <<n, VcGet(since, n) + 1, current[n]>> :
        n \in { m \in DOMAIN current : current[m] > VcGet(since, m) } }

WhatsNew(ranges, current_clock) == [ranges |-> ranges, current_clock |-> current_clock]

\* WhatsNew::has_updates
HasUpdates(w) == w.ranges # << >>

(***************************************************************************)
(* MemoryStore direct messages (store.rs)                                  *)
(***************************************************************************)
\* the filter of get_unread_dm_count: the payload is a DirectMessage
IsDm(m) == m.payload.kind = "DirectMessage"

\* the filter of get_dms_with(peer_id)
IsDmWith(m, peer_id) == IsDm(m) /\ (m.origin = peer_id \/ m.payload.to = peer_id)

\* get_unread_dm_count: messages.values().filter(..).count()
UnreadDmCount(msgs, markers) == Cardinality({ id \in DOMAIN msgs : IsDm(msgs[id]) })

(***************************************************************************)
(* MemoryStore::get_messages_since (store.rs)                              *)
(***************************************************************************)
\* MessageEnvelope, as far as get_messages_since looks at it
StoredEnvelope(layer, clock, timestamp) ==
    [layer |-> layer, clock |-> clock, timestamp |-> timestamp]

\* lines 251-255: the filter over messages.values()
SinceFilter(msgs, layer, since) ==
    { id \in DOMAIN msgs :
        msgs[id].layer = layer /\ ~HappenedBefore(since, msgs[id].clock) }

\* line 257, sort_by_key(|m| m.timestamp): a stable sort of the values in the
\* order the HashMap iterates, so equal timestamps come in any order
SortedByTimestamp(msgs, ids) ==
    { o \in Orders(ids) :
        \A i, j \in 1..Cardinality(ids) :
            i < j => msgs[o[i]].timestamp <= msgs[o[j]].timestamp }

\* line 258: Vec::truncate(limit)
Truncate(seq, limit) ==
    SubSeq(seq, 1, IF Len(seq) > limit THEN limit ELSE Len(seq))

\* the results get_messages_since(layer, since, limit) can return
MessagesSince(msgs, layer, since, limit) ==
    { Truncate([i \in 1..Len(o) |-> msgs[o[i]]], limit) :
        o \in SortedByTimestamp(msgs, SinceFilter(msgs, layer, since)) }

(***************************************************************************)
(* QuicConnection framing (quic.rs).  A stream carries bytes; the model    *)
(* keeps them as tokens: a 4-byte big-endian length, or the bytes of one   *)
(* serialized envelope.                                                    *)
(***************************************************************************)
\* the largest length prefix recv accepts: 10 * 1024 * 1024
MAX_MESSAGE_LEN == 10485760

\* serialized length of an ordinary envelope
SmallLen == 64

\* an envelope as far as the transport is concerned: who made it, which one
\* it is, and how many bytes bincode makes of it
WireEnvelope(origin, id, encoded_len) ==
    [origin |-> origin, id |-> id, encoded_len |-> encoded_len]

\* MessageEnvelope::to_bytes, from_bytes: bincode
ToBytes(msg) == <<"bincode", msg>>
FromBytes(bytes) == bytes[2]
BytesLen(bytes) == bytes[2].encoded_len

NoBytes == ToBytes(WireEnvelope("none", 0, 0))

\* (bytes.len() as u32).to_be_bytes() on the stream
LenPrefix(n) == [kind |-> "len", len |-> n, bytes |-> NoBytes]
\* the serialized envelope on the stream
Body(bytes) == [kind |-> "bytes", len |-> 0, bytes |-> bytes]

\* send, lines 167-180: what write_all puts on the stream
Frame(msg) == <<LenPrefix(BytesLen(ToBytes(msg))), Body(ToBytes(msg))>>

RecvOk(msg) == [kind |-> "Ok", msg |-> msg, error |-> "none"]
RecvErr(error) == [kind |-> "Err", msg |-> WireEnvelope("none", 0, 0), error |-> error]

RecvOutcome(result, rest, closed) == [result |-> result, rest |-> rest, closed |-> closed]

\* recv, lines 192-209, on a stream whose unread bytes are `inbox`: the
\* length is read; above the limit the call returns the error and the
\* stream stays as it is, the length consumed; otherwise the body is read
\* and deserialized
RecvFrame(inbox) ==
    IF Head(inbox).len > MAX_MESSAGE_LEN
    THEN RecvOutcome(RecvErr("ProtocolError: Message too large"), Tail(inbox), FALSE)
    ELSE RecvOutcome(RecvOk(FromBytes(inbox[2].bytes)), Tail(Tail(inbox)), FALSE)

\* what read_exact needs before recv can return: the length and, unless it
\* is above the limit, the body
FrameReadable(inbox) ==
    /\ inbox # << >>
    /\ Head(inbox).kind = "len"
    /\ Head(inbox).len <= MAX_MESSAGE_LEN =>
          /\ Len(inbox) >= 2
          /\ inbox[2].kind = "bytes"
          /\ BytesLen(inbox[2].bytes) = Head(inbox).len

\* one side's QuicConnection with the stream it opened
QuicStream(open, waiting, out, inbox, written, sent, delivered, rejected) ==
    [open |-> open,           \* send_stream and recv_stream are Some
     waiting |-> waiting,     \* a recv call is in progress
     out |-> out,             \* what this side wrote on its stream
     inbox |-> inbox,         \* what the far end wrote on it, still unread
     written |-> written,     \* frames the far end has written on it
     sent |-> sent,           \* envelopes send returned Ok for, in order
     delivered |-> delivered, \* envelopes recv returned, in order
     rejected |-> rejected]   \* recv has returned "Message too large"

NoStream == QuicStream(FALSE, FALSE, << >>, << >>, 0, << >>, << >>, FALSE)

\* the two ends of one connection: connect() and Listener::accept()
Sides == {"client", "server"}
Other(s) == IF s = "client" THEN "server" ELSE "client"

(***************************************************************************)
(* Identity files: TeambookIdentity (crypto.rs) keeps the raw secret key   *)
(* in identity.key; the mobile node (deepnet-mobile lib.rs, deepnet-core   *)
(* identity.rs) keeps NodeIdentity::to_bytes() in mesh_identity.bin.       *)
(***************************************************************************)
\* ed25519_dalek::SECRET_KEY_LENGTH
SECRET_KEY_LENGTH == 32

NoKey == "none"
NoManifest == <<"none">>
Garbled == <<"garbled">>

\* a file: whether it exists, how many bytes it holds, the secret key in its
\* first 32 bytes, and the node id of the manifest that follows them
\* (NoManifest when none follows, Garbled when bincode cannot read it)
FileOf(exists, len, key, manifest) ==
    [exists |-> exists, len |-> len, key |-> key, manifest |-> manifest]

NoFile == FileOf(FALSE, 0, NoKey, NoManifest)

\* the node id derived from a secret key
NodeIdOf(key) == <<"node", key>>

\* TeambookIdentity::save_to_file: the 32 bytes of the secret key
SaveToFile(key) == FileOf(TRUE, SECRET_KEY_LENGTH, key, NoManifest)

\* NodeIdentity::to_bytes: the secret key, then the serialized manifest
NodeIdentityToBytes(key) == FileOf(TRUE, SECRET_KEY_LENGTH + SmallLen, key, NodeIdOf(key))

LoadOk(key, newly_created) ==
    [kind |-> "Ok", key |-> key, newly_created |-> newly_created, error |-> "none"]
LoadErr(error) ==
    [kind |-> "Err", key |-> NoKey, newly_created |-> FALSE, error |-> error]

\* TeambookIdentity::load_from_file
LoadFromFile(file) ==
    IF file.len # SECRET_KEY_LENGTH
    THEN LoadErr("Identity file corrupted")
    ELSE LoadOk(file.key, FALSE)

\* NodeIdentity::from_bytes
NodeIdentityFromBytes(file) ==
    IF file.len < SECRET_KEY_LENGTH THEN LoadErr("InvalidLength")
    ELSE IF file.manifest \in {NoManifest, Garbled} THEN LoadErr("DeserializationFailed")
    ELSE IF file.manifest # NodeIdOf(file.key) THEN LoadErr("KeyMismatch")
    ELSE LoadOk(file.key, FALSE)

\* the outcome of a load: what the caller gets and what is on disk after
Loaded(result, file) == [result |-> result, file |-> file]

\* TeambookIdentity::load_or_generate; fresh is the key OsRng would give
LoadOrGenerateStep(file, fresh) ==
    IF file.exists
    THEN Loaded(LoadFromFile(file), file)
    ELSE Loaded(LoadOk(fresh, TRUE), SaveToFile(fresh))

\* mesh_identity_init, lines 1175-1217: a file that cannot be read or
\* parsed falls through to generation and is overwritten
MeshIdentityInitStep(file, fresh) ==
    IF file.exists /\ NodeIdentityFromBytes(file).kind = "Ok"
    THEN Loaded(NodeIdentityFromBytes(file), file)
    ELSE Loaded(LoadOk(fresh, TRUE), NodeIdentityToBytes(fresh))

\* the two identity stores
IdentityStores == {"teambook", "mesh"}

(***************************************************************************)
(* CRDT primitives (sync.rs).  A NodeId is a byte array ([u8; 32] in the    *)
(* code, two bytes here) compared byte by byte from the front.             *)
(***************************************************************************)
\* the replicas that hold a copy of one register
Replicas == {1, 2}
\* the replicas that hold a copy of one counter
CounterReplicas == {1, 2, 3}

\* NodeId of a replica: the ids differ in the first byte one way and in the
\* second byte the other way
NodeIdBytes(r) == IF r = 1 THEN <<0, 2>> ELSE IF r = 2 THEN <<1, 0>> ELSE <<1, 1>>

\* [u8; N] > [u8; N]: lexicographic comparison of the bytes
ByteLexGreater(a, b) ==
    \E i \in 1..Len(a) :
        /\ a[i] > b[i]
        /\ \A j \in 1..(i - 1) : a[j] = b[j]

LwwRegister(value, timestamp, node_id) ==
    [value |-> value, timestamp |-> timestamp, node_id |-> node_id]

\* no register created yet
NoRegister == LwwRegister("none", 0, <<0, 0>>)

\* LwwRegister::new(value, node_id) and LwwRegister::set(value, node_id), the
\* system clock reading now_us microseconds
LwwSetStep(value, now_us, node_id) == LwwRegister(value, now_us, node_id)

\* self.merge(&other); the result is self afterwards
LwwMergeStep(self, other) ==
    IF \/ other.timestamp > self.timestamp
       \/ /\ other.timestamp = self.timestamp
          /\ ByteLexGreater(other.node_id, self.node_id)
    THEN LwwRegister(other.value, other.timestamp, other.node_id)
    ELSE self

\* GCounter::increment(node_id): *counts.entry(node_id).or_insert(0) += 1
GCounterIncrement(counts, node_id) ==
    MapInsert(counts, node_id,
              (IF node_id \in DOMAIN counts THEN counts[node_id] ELSE 0) + 1)

\* GCounter::value(): counts.values().sum()
RECURSIVE SumOver(_, _)
SumOver(counts, ids) ==
    IF ids = {} THEN 0
    ELSE LET id == CHOOSE x \in ids : TRUE
         IN counts[id] + SumOver(counts, ids \ {id})

GCounterValue(counts) == SumOver(counts, DOMAIN counts)

\* a merge that adds the other replica's counts to its own
GCounterMerge_Adds(self, other) ==
    [id \in DOMAIN self \cup DOMAIN other |->
        (IF id \in DOMAIN self THEN self[id] ELSE 0)
        + (IF id \in DOMAIN other THEN other[id] ELSE 0)]

\* self.merge(&other): every entry of other gets an entry in self
\* (or_insert(0)) holding the larger of the two counts
GCounterMerge(self, other) ==
    [id \in DOMAIN self \cup DOMAIN other |->
        IF id \in DOMAIN other
        THEN LET entry == IF id \in DOMAIN self THEN self[id] ELSE 0
             IN IF entry >= other[id] THEN entry ELSE other[id]
        ELSE self[id]]

(***************************************************************************)
(* Locks.  FederationState (federation.rs) and PairingState (pairing.rs)   *)
(* keep their maps behind tokio RwLocks, the SyncManager (sync.rs) behind  *)
(* parking_lot RwLocks.  Both kinds queue a new reader behind a waiting    *)
(* writer.  A call is the sequence of its lock operations and of the file  *)
(* I/O it awaits; which branch a call takes is part of its name.           *)
(***************************************************************************)
LockNames == {"policy", "peers", "seen_events", "codes", "tokens",
              "seen_messages", "clock", "outbound_federated"}

LockOp(op, lock, mode) == [op |-> op, lock |-> lock, mode |-> mode]
\* lock.read().await / lock.write().await
AcquireRead(lock) == LockOp("acquire", lock, "read")
AcquireWrite(lock) == LockOp("acquire", lock, "write")
\* the guard goes out of scope or is dropped
Release(lock) == LockOp("release", lock, "none")
\* an awaited tokio::fs call
FileIo(what) == LockOp("io", what, "none")

\* FederationState::save_peers
SavePeersOps ==
    <<FileIo("create_dir_all"), AcquireRead("peers"), FileIo("write"), Release("peers")>>

\* the calls of FederationState (process_push: one event that is accepted)
FederationCalls ==
    {"handle_registration", "handle_registration_limit",
     "handle_registration_response", "status", "set_policy", "policy",
     "remove_peer", "remove_peer_absent", "touch_peer", "list_peers",
     "process_push"}

LockOps(call) ==
    CASE call = "handle_registration" ->
           <<AcquireRead("policy"), AcquireRead("peers"), Release("peers"),
             Release("policy"), AcquireWrite("peers"), Release("peers")>>
           \o SavePeersOps
      [] call = "handle_registration_limit" ->
           <<AcquireRead("policy"), AcquireRead("peers"), Release("peers"),
             Release("policy")>>
      [] call = "handle_registration_response" ->
           <<AcquireWrite("peers"), Release("peers")>> \o SavePeersOps
      [] call = "status" ->
           <<AcquireRead("peers"), AcquireRead("seen_events"), Release("seen_events"),
             AcquireRead("policy"), Release("peers"), Release("policy")>>
      [] call = "set_policy" -> <<AcquireWrite("policy"), Release("policy")>>
      [] call = "policy" -> <<AcquireRead("policy"), Release("policy")>>
      [] call = "remove_peer" ->
           <<AcquireWrite("peers"), Release("peers")>> \o SavePeersOps
      [] call = "remove_peer_absent" -> <<AcquireWrite("peers"), Release("peers")>>
      [] call = "touch_peer" -> <<AcquireWrite("peers"), Release("peers")>>
      [] call = "list_peers" -> <<AcquireRead("peers"), Release("peers")>>
      [] call = "process_push" ->
           <<AcquireRead("peers"), Release("peers"),
             AcquireRead("seen_events"), Release("seen_events"),
             AcquireWrite("seen_events"), Release("seen_events"),
             AcquireWrite("peers"), Release("peers")>>
      [] call = "generate_code" -> <<AcquireWrite("codes"), Release("codes")>>
      [] call = "validate_code" ->
           <<AcquireWrite("codes"), AcquireWrite("tokens"), Release("tokens"),
             Release("codes")>>
      [] call = "resolve_token" -> <<AcquireRead("tokens"), Release("tokens")>>
      [] call = "process_incoming" ->
           <<AcquireRead("seen_messages"), Release("seen_messages"),
             AcquireWrite("seen_messages"), Release("seen_messages"),
             AcquireWrite("clock"), Release("clock")>>
      [] call = "prepare_outbound" ->
           <<AcquireWrite("clock"), Release("clock"),
             AcquireWrite("outbound_federated"), Release("outbound_federated")>>

\* a task: the call it runs, the operation it is at, whether it is queued
\* for the lock of that operation, and the calls it has finished
Task(call, pc, waiting, finished) ==
    [call |-> call, pc |-> pc, waiting |-> waiting, finished |-> finished]
IdleTask(finished) == Task("idle", 0, FALSE, finished)

Tasks == 1..4

\* a lock: the guards alive, and the queue of tasks waiting for a guard
Guard(task, mode) == [task |-> task, mode |-> mode]
Lock(holders, queue) == [holders |-> holders, queue |-> queue]
FreeLock == Lock({}, << >>)

\* a guard of this mode can be handed out next to the guards alive
Compatible(holders, mode) ==
    IF mode = "read" THEN \A g \in holders : g.mode = "read" ELSE holders = {}

\* after a release: the queue is served from its head for as long as the
\* head's guard is compatible with the guards alive
RECURSIVE GrantQueued(_)
GrantQueued(lock) ==
    IF lock.queue # << >> /\ Compatible(lock.holders, Head(lock.queue).mode)
    THEN GrantQueued(Lock(lock.holders \cup {Head(lock.queue)}, Tail(lock.queue)))
    ELSE lock

\* the locks a task holds a guard of
HeldBy(ls, t) == { l \in LockNames : \E g \in ls[l].holders : g.task = t }

(***************************************************************************)
(* Vector-clock components at the width of the code (message.rs): a u64    *)
(* is held as the residue modulo 2^64 that is nearest to zero, so that     *)
(* u64::MAX is -1 and the values just above 0 are themselves.              *)
(***************************************************************************)
U64_MAX == -1

\* the order of u64 on residues: a residue below zero stands for a value in
\* the upper half of the range
U64Greater(a, b) ==
    IF (a < 0) = (b < 0) THEN a > b ELSE a < 0

Ticked(clock, panicked) == [clock |-> clock, panicked |-> panicked]

\* VectorClock::increment, `*counter += 1` on a u64: at u64::MAX a build with
\* overflow checks panics before the store, any other build wraps to 0
VcIncrementU64(vc, node_id, checks) ==
    IF VcGet(vc, node_id) = U64_MAX /\ checks
    THEN Ticked(vc, TRUE)
    ELSE Ticked(MapInsert(vc, node_id, VcGet(vc, node_id) + 1), FALSE)

\* VectorClock::merge on u64 components
VcMergeU64(vc, other) ==
    [x \in DOMAIN vc \cup DOMAIN other |->
        IF x \in DOMAIN other
        THEN (IF U64Greater(VcGet(vc, x), other[x]) THEN VcGet(vc, x) ELSE other[x])
        ELSE vc[x]]

(***************************************************************************)
(* State                                                                   *)
(***************************************************************************)
VARIABLES
    overflow_checks,  \* the build: TRUE when integer overflow panics
    hlc,              \* node -> the HlcTimestamp inside its HybridClock
    poisoned,         \* node -> whether the clock's mutex is poisoned
    ncalls,           \* clock calls made so far
    returned,         \* node -> the timestamps its clock returned, in order
    ticked,           \* the timestamps returned by tick() on any node
    causal,           \* node -> the ticked timestamps it has received
    last,             \* the most recent step and what it returned
    peers,            \* FederationState.peers: pubkey hex -> PeerInfo
    seen_events,      \* FederationState.seen_events: content id hex -> first seen
    max_peers,        \* FederationState.policy.max_peers
    push,             \* the locals of the process_push call in progress
    npush,            \* process_push calls begun so far
    seen_messages,    \* SyncManager.seen_messages
    vclock,           \* SyncManager.clock: node id -> counter
    presented,        \* the envelopes process_incoming has been called with
    wire,             \* the registration requests sent so far, with the node
                      \* each was addressed to
    replies,          \* the responses this node gave to requests on the wire
    initiator_peers,  \* FederationState.peers of the node holding kA
    admitted,         \* the requests of handle_registration calls that have
                      \* passed the checks and not yet inserted
    fanout,           \* the locals of the push_to_all_peers call in progress
    pulling,          \* the locals of the pull_from_all_peers call in progress
    outbound_federated, \* SyncManager.outbound_federated
    outbound_shared,  \* SyncManager.outbound_shared: node id -> queue
    preparing,        \* thread -> the envelope its prepare_outbound call holds
                      \* between tick() and the queue lock
    enqueued,         \* queue -> the envelopes pushed onto it, in push order
    batches,          \* queue -> the batches drained from it, concatenated
    messages,         \* MemoryStore.messages: message id -> envelope
    read_markers,     \* MemoryStore.read_markers: node id -> seconds
    read_upto,        \* node id -> the messages stored when mark_dms_read was
                      \* last called for it
    remote_kind,      \* what holds the far end of the QUIC connection
    quic,             \* side -> its QuicConnection and its stream
    identity_file,    \* identity store -> the content of its identity file
    active_identity,  \* identity store -> the secret key of the identity in use
    lww,              \* replica -> its LwwRegister
    gcounter,         \* replica -> GCounter.counts: node id -> count
    tasks,            \* task -> the call it runs and its position in it
    locks,            \* lock -> the tasks that hold it and those queued for it
    pushers,          \* task -> the locals of the process_push call it runs
    accepts,          \* content id hex -> how often a call counted it accepted
    watch,            \* task -> "stale" when its process_push call began with
                      \* an event already seen or of an unknown peer, else
                      \* "undisturbed" until another call changes the registry
                      \* or the dedup cache, "disturbed" from then on
    receiving,        \* thread -> the process_incoming call it runs
    decisions,        \* envelope id -> how many calls returned Process and how
                      \* many AlreadySeen
    remote_head,      \* peer pubkey hex -> the head sequence of that peer's log
    delivered,        \* peer pubkey hex -> the highest sequence number whose
                      \* event a pull response of that peer has brought
    stamped           \* the own-entry values prepare_outbound stamped, in order

hlcVars == <<overflow_checks, hlc, poisoned, ncalls, returned, ticked, causal>>
fedVars == <<peers, seen_events, max_peers, push, npush>>
outVars == <<outbound_federated, outbound_shared, preparing, enqueued, batches>>
storeVars == <<messages, read_markers, read_upto>>
quicVars == <<remote_kind, quic>>
idVars == <<identity_file, active_identity>>
crdtVars == <<lww, gcounter>>
lockVars == <<tasks, locks>>
raceVars == <<pushers, accepts, watch>>
incomingVars == <<receiving, decisions>>
resumeVars == <<remote_head, delivered>>
stampVars == <<stamped>>
lateVars == <<crdtVars, lockVars, raceVars, incomingVars, resumeVars, stampVars>>
farVars == <<quicVars, idVars, lateVars>>
mobileVars == <<outVars, storeVars, farVars>>
syncVars == <<seen_messages, vclock, presented, mobileVars>>
runVars == <<fanout, pulling>>
netVars == <<wire, replies, initiator_peers, admitted, runVars>>
coreVars == <<hlcVars, fedVars, netVars, seen_messages, vclock, presented>>
vars == <<hlcVars, last, fedVars, syncVars, netVars>>
\* everything but one of the late groups
earlyVars == <<coreVars, outVars, storeVars, quicVars, idVars>>
exceptCrdtVars == <<earlyVars, lockVars, raceVars, incomingVars, resumeVars, stampVars>>
exceptLockVars == <<earlyVars, crdtVars, raceVars, incomingVars, resumeVars, stampVars>>
\* everything but the pull in progress and the remote peers' logs
besidePullVars == <<hlcVars, fedVars, wire, replies, initiator_peers, admitted, fanout,
                    seen_messages, vclock, presented, outVars, storeVars, quicVars,
                    idVars, crdtVars, lockVars, raceVars, incomingVars, stampVars>>
\* what no process_incoming call touches
besideSyncVars == <<hlcVars, fedVars, netVars, outVars, storeVars, quicVars, idVars,
                    crdtVars, lockVars, raceVars, resumeVars, stampVars>>
\* what no process_push call touches
besideFedVars == <<netVars, seen_messages, vclock, presented, outVars, storeVars,
                   quicVars, idVars, crdtVars, lockVars, incomingVars, resumeVars,
                   stampVars>>
\* what the stamping of prepare_outbound and merge_clock leave alone
besideStampVars == <<hlcVars, fedVars, netVars, seen_messages, presented,
                     outbound_federated, outbound_shared, enqueued, batches,
                     storeVars, quicVars, idVars, crdtVars, lockVars, raceVars,
                     incomingVars, resumeVars>>

Nodes == {1, 2}
\* the node whose FederationState is modelled
Self == 1

\* the threads that call into one SyncManager
Threads == {1, 2}

\* wall-clock readings (microseconds)
Wall == 1..MaxWall

\* timestamps a remote node may send: behind, level with and beyond the drift
\* limit of every wall-clock reading; counters at both ends of u32
ExternalRemotes ==
    { HlcTs(p, c, 9) : p \in {1, MaxWall, MaxWall + MAX_DRIFT_US},
                       c \in {U32Zero, U32PredMax, U32_MAX} }

Call(kind, node, now_us, remote, before, after) ==
    [kind |-> kind, node |-> node, now_us |-> now_us, remote |-> remote,
     before |-> before, after |-> after]

NoCall == Call("none", 0, 0, HlcZero(0), HlcZero(0), HlcZero(0))

\* HybridClock::new on every node; FederationState::init with no saved peers
Init ==
    /\ overflow_checks \in BOOLEAN
    /\ hlc = [n \in Nodes |-> HlcZero(n)]
    /\ poisoned = [n \in Nodes |-> FALSE]
    /\ ncalls = 0
    /\ returned = [n \in Nodes |-> << >>]
    /\ ticked = {}
    /\ causal = [n \in Nodes |-> {}]
    /\ last = NoCall
    /\ peers = EmptyMap
    /\ seen_events = EmptyMap
    /\ max_peers = DEFAULT_MAX_PEERS
    /\ push = NoPush
    /\ npush = 0
    /\ seen_messages = {}
    /\ vclock = VectorClockNew
    /\ presented = {}
    /\ wire = {}
    /\ replies = {}
    /\ initiator_peers = EmptyMap
    /\ admitted = {}
    /\ fanout = NoFanout
    /\ pulling = NoPulling
    /\ outbound_federated = << >>
    /\ outbound_shared = EmptyMap
    /\ preparing = [t \in Threads |-> NoEnvelope]
    /\ enqueued = EmptyMap
    /\ batches = EmptyMap
    /\ messages = EmptyMap
    /\ read_markers = EmptyMap
    /\ read_upto = EmptyMap
    /\ remote_kind = "none"
    /\ quic = [s \in Sides |-> NoStream]
    /\ identity_file = [w \in IdentityStores |-> NoFile]
    /\ active_identity = [w \in IdentityStores |-> NoKey]
    /\ lww = [r \in Replicas |-> NoRegister]
    /\ gcounter = [r \in CounterReplicas |-> EmptyMap]
    /\ tasks = [t \in Tasks |-> IdleTask(0)]
    /\ locks = [l \in LockNames |-> FreeLock]
    /\ pushers = [t \in Pushers |-> NoPushCall]
    /\ accepts = EmptyMap
    /\ watch = [t \in Pushers |-> "stale"]
    /\ receiving = [t \in Threads |-> NoIncoming(0)]
    /\ decisions = EmptyMap
    /\ remote_head = [h \in {HexEncode("kA")} |-> 0]
    /\ delivered = [h \in {HexEncode("kA")} |-> 0]
    /\ stamped = << >>

(***************************************************************************)
(* HybridClock calls.  A call reads the wall clock and then runs its body  *)
(* under the state mutex.  The reading is an input drawn from Wall (the    *)
(* system clock may stall or step backwards, and a thread may be delayed   *)
(* between reading it and taking the lock); the action is the critical     *)
(* section, so the calls of concurrent threads interleave in the order in  *)
(* which they hold the mutex.                                              *)
(***************************************************************************)
\* clock.tick() on node n
Tick(n, now_us) ==
    LET r == ClockTick(Clock(hlc[n], poisoned[n]), now_us, overflow_checks) IN
    /\ ncalls' = ncalls + 1
    /\ hlc' = [hlc EXCEPT ![n] = r.clock.state]
    /\ poisoned' = [poisoned EXCEPT ![n] = r.clock.poisoned]
    /\ IF r.ret = "ok"
       THEN /\ last' = Call("tick", n, now_us, HlcZero(0), hlc[n], r.clock.state)
            /\ returned' = [returned EXCEPT ![n] = Append(@, r.clock.state)]
            /\ ticked' = ticked \cup {r.clock.state}
       ELSE /\ last' = Call("tick_panic", n, now_us, HlcZero(0), hlc[n], r.clock.state)
            /\ UNCHANGED <<returned, ticked>>
    /\ UNCHANGED <<overflow_checks, causal, fedVars, syncVars, netVars>>

\* clock.receive(remote) on node n
Receive(n, now_us, remote) ==
    LET r == ClockReceive(Clock(hlc[n], poisoned[n]), remote, now_us, overflow_checks) IN
    /\ ncalls' = ncalls + 1
    /\ hlc' = [hlc EXCEPT ![n] = r.clock.state]
    /\ poisoned' = [poisoned EXCEPT ![n] = r.clock.poisoned]
    /\ IF r.ret = "ok"
       THEN /\ last' = Call("recv", n, now_us, remote, hlc[n], r.clock.state)
            /\ returned' = [returned EXCEPT ![n] = Append(@, r.clock.state)]
            /\ causal' = [causal EXCEPT ![n] =
                             IF remote \in ticked /\ remote.node_id # n
                             THEN @ \cup {remote} ELSE @]
       ELSE /\ last' = Call(IF r.ret = "drift" THEN "drift" ELSE "recv_panic",
                            n, now_us, remote, hlc[n], r.clock.state)
            /\ UNCHANGED <<returned, causal>>
    /\ UNCHANGED <<overflow_checks, ticked, fedVars, syncVars, netVars>>

\* one clock, any number of threads
NextHlc ==
    /\ ncalls < MaxCalls
    /\ \/ \E now_us \in Wall : Tick(Self, now_us)
       \/ \E now_us \in Wall, remote \in ExternalRemotes : Receive(Self, now_us, remote)

SpecHlc == Init /\ [][NextHlc]_vars

\* two nodes exchanging the timestamps they tick
NextCausal ==
    /\ ncalls < MaxHops
    /\ \/ \E n \in Nodes, now_us \in Wall : Tick(n, now_us)
       \/ \E n \in Nodes, now_us \in Wall, remote \in ExternalRemotes \cup ticked :
             Receive(n, now_us, remote)

SpecCausal == Init /\ [][NextCausal]_vars

(***************************************************************************)
(* FederationState handlers on node Self.  `last` records what the step    *)
(* was given and what it answered.                                         *)
(***************************************************************************)
Step(kind, value) == [kind |-> kind, value |-> value]

\* the EventPushRequest.sender_hlc values tried: level with the wall clock
\* with the counter at u32::MAX, and beyond the drift limit
SenderHlcs ==
    { HlcTs(MaxWall, U32_MAX, 9), HlcTs(MaxWall + MAX_DRIFT_US + 1, U32Zero, 9) }

\* the SignedEvents a sender may put in a batch: every combination of payload,
\* origin key, signature and content id, so well-formed events and events
\* failing any number of checks
Events ==
    { SignedEvent(b, k, sig, ContentHash(h)) :
        b \in Payloads \cup {EmptyBytes},
        k \in Keys \cup {BadKey},
        sig \in { Sign("kA", <<1>>), Sign("kB", <<1>>), Sign("kA", <<2>>) },
        h \in Payloads }

\* what the checks of the loop body will find for `event`, taken before the
\* iteration runs
EventFacts(event, ps, seen) ==
    [empty   |-> event.event_bytes = EmptyBytes,
     hash_ok |-> event.content_id = ContentHash(event.event_bytes),
     sig_ok  |-> /\ event.origin_pubkey \in Keys
                 /\ event.signature = Sign(event.origin_pubkey, event.event_bytes),
     known   |-> /\ HexEncode(event.origin_pubkey) \in DOMAIN ps
                 /\ ps[HexEncode(event.origin_pubkey)].status # "Removed",
     cached  |-> HexEncode(event.content_id) \in DOMAIN seen]

\* what an iteration did, read off the counters and the error list
Observed(p, q) ==
    IF q.accepted = p.accepted + 1 THEN "accepted"
    ELSE IF q.duplicates = p.duplicates + 1 THEN "duplicate"
    ELSE IF q.rejected = p.rejected + 1 /\ Len(q.errors) = Len(p.errors) + 1
    THEN q.errors[Len(q.errors)].reason
    ELSE "nothing"

\* challenge nonces
Nonces == {"nonce"}

\* challenge_signature strings: a signature by either key over the nonce or
\* over an older one, hex of 63 bytes, and a string that is not hex
SigStrings ==
    { HexEncodeSig(Sign(k, m)) : k \in Keys, m \in Nonces \cup {"stale"} }
        \cup { SigString(TRUE, SIGNATURE_LEN - 1, Sign("kA", "nonce")),
               SigString(FALSE, 0, Sign("kA", "nonce")) }

RegistrationRequests ==
    { RegistrationRequest(k, EndpointOf(k), n, str) :
        k \in Keys \cup {BadKey}, n \in Nonces, str \in SigStrings }

\* FederationState::build_registration_request on the node holding `key`
BuildRegistrationRequest(key) ==
    RegistrationRequest(key, EndpointOf(key), "nonce",
                        HexEncodeSig(Sign(key, "nonce")))

\* process_push, lines 158-167: clock.receive(sender_hlc); a drift error is
\* logged and the batch is processed all the same
PushBegin(sender_hlc, now_us) ==
    LET r == ClockReceive(Clock(hlc[Self], poisoned[Self]), sender_hlc, now_us,
                          overflow_checks)
    IN  /\ ~push.active
        /\ npush < MaxPushes
        /\ npush' = npush + 1
        /\ hlc' = [hlc EXCEPT ![Self] = r.clock.state]
        /\ poisoned' = [poisoned EXCEPT ![Self] = r.clock.poisoned]
        /\ push' = IF r.ret = "panic" THEN NoPush ELSE PushStart(r.ret = "drift")
        /\ last' = Step("push_begin", r.ret)
        /\ UNCHANGED <<overflow_checks, ncalls, returned, ticked, causal,
                       peers, seen_events, max_peers, syncVars, netVars>>

\* process_push, lines 169-244: the next event of the batch
PushEvent(event) ==
    /\ push.active
    /\ push.n < MaxBatch
    /\ \E t_seen \in Wall, t_touch \in Wall :
          LET r == PushEventStep(push, peers, seen_events, event, t_seen, t_touch) IN
          /\ push' = r.push
          /\ peers' = r.peers
          /\ seen_events' = r.seen
          /\ last' = Step("push_event",
                          [facts |-> EventFacts(event, peers, seen_events),
                           outcome |-> Observed(push, r.push)])
    /\ UNCHANGED <<hlcVars, max_peers, npush, syncVars, netVars>>

\* process_push, lines 255-264: the batch is exhausted; clock.tick() and the
\* response
PushEnd(now_us) ==
    LET r == ClockTick(Clock(hlc[Self], poisoned[Self]), now_us, overflow_checks) IN
    /\ push.active
    /\ hlc' = [hlc EXCEPT ![Self] = r.clock.state]
    /\ poisoned' = [poisoned EXCEPT ![Self] = r.clock.poisoned]
    /\ push' = NoPush
    /\ last' = Step("push_end", r.ret)
    /\ UNCHANGED <<overflow_checks, ncalls, returned, ticked, causal,
                   peers, seen_events, max_peers, npush, syncVars, netVars>>

\* a registration request on its way to node `dest`
Sent(req, dest) == [req |-> req, dest |-> dest]

\* FederationState::handle_registration; the response to a request that came
\* over the wire travels back to its sender
HandleRegistration(req, now_us) ==
    LET check == RegistrationCheck(peers, max_peers, req)
        resp == IF check = <<"accept">> THEN AcceptRegistration
                                        ELSE RejectRegistration(check)
    IN  /\ peers' = IF check = <<"accept">>
                    THEN MapInsert(peers, HexEncode(req.public_key),
                                   PeerInfo("Online", now_us, FALSE, req.endpoint))
                    ELSE peers
        /\ last' = Step("handle_registration", [req |-> req, resp |-> resp])
        /\ replies' = IF Sent(req, Self) \in wire THEN replies \cup {resp}
                                                  ELSE replies
        /\ UNCHANGED <<hlcVars, seen_events, max_peers, push, npush, syncVars,
                       wire, initiator_peers, admitted, runVars>>

\* FederationState::handle_registration_response
HandleRegistrationResponse(resp, now_us) ==
    /\ peers' = RegistrationResponseInsert(peers, resp, now_us)
    /\ last' = Step("handle_registration_response",
                    [resp |-> resp, result |-> RegistrationResponseCheck(resp)])
    /\ UNCHANGED <<hlcVars, seen_events, max_peers, push, npush, syncVars, netVars>>

\* FederationState::remove_peer
RemovePeer(pubkey_hex) ==
    /\ peers' = RemovePeerIn(peers, pubkey_hex)
    /\ last' = Step("remove_peer", [pubkey_hex |-> pubkey_hex,
                                    result |-> pubkey_hex \in DOMAIN peers])
    /\ UNCHANGED <<hlcVars, seen_events, max_peers, push, npush, syncVars, netVars>>

\* FederationState::prune_seen_events
PruneSeen(max_age_us, now_us) ==
    /\ seen_events' = PruneSeenEvents(seen_events, max_age_us, now_us)
    /\ last' = Step("prune_seen_events", << >>)
    /\ UNCHANGED <<hlcVars, peers, max_peers, push, npush, syncVars, netVars>>

\* FederationState::set_policy
SetPolicy(new_max_peers) ==
    /\ max_peers' = new_max_peers
    /\ last' = Step("set_policy", << >>)
    /\ UNCHANGED <<hlcVars, peers, seen_events, push, npush, syncVars, netVars>>

\* Registration: any request from anyone, removals and policy changes.
NextReg ==
    \/ \E req \in RegistrationRequests, now_us \in Wall : HandleRegistration(req, now_us)
    \/ \E k \in Keys \cup {BadKey} : RemovePeer(HexEncode(k))
    \/ \E m \in {0, 1, DEFAULT_MAX_PEERS} : SetPolicy(m)

SpecReg == Init /\ [][NextReg]_vars

\* Inbound push: the node holding kA registers and may be removed at any
\* moment, also in the middle of a batch; kB never registers.  Batches of up
\* to MaxBatch events arrive one after the other.
NextPush ==
    \/ \E s \in SenderHlcs, now_us \in Wall : PushBegin(s, now_us)
    \/ \E event \in Events : PushEvent(event)
    \/ \E now_us \in Wall : PushEnd(now_us)
    \/ \E now_us \in Wall :
          ~push.active /\ HandleRegistration(BuildRegistrationRequest("kA"), now_us)
    \/ RemovePeer(HexEncode("kA"))
    \/ \E max_age_us \in {0, 1}, now_us \in Wall :
          ~push.active /\ PruneSeen(max_age_us, now_us)

SpecPush == Init /\ [][NextPush]_vars

(***************************************************************************)
(* Registration over an open network.  The holder of kA sends registration *)
(* requests, to this node or to another one; an intruder who holds kB's    *)
(* secret but not kA's sees every request sent and may send this node any  *)
(* request it can put together from what it saw and what it can sign.      *)
(***************************************************************************)
\* the key whose secret the intruder holds
IntruderKey == "kB"

\* the endpoint the intruder wants peers to push to
IntruderEndpoint == <<"endpoint", "intruder">>

\* what the intruder can send: any public key, endpoint and nonce, with a
\* signature string it saw on the wire or a signature it makes itself
IntruderRequests ==
    { RegistrationRequest(k, e, n, str) :
        k \in Keys,
        e \in {EndpointOf("kA"), IntruderEndpoint},
        n \in Nonces,
        str \in { m.req.challenge_signature : m \in wire }
                   \cup { HexEncodeSig(Sign(IntruderKey, x)) : x \in Nonces } }

\* the holder of `key` sends build_registration_request() to node `dest`
SendRegistration(key, dest) ==
    /\ wire' = wire \cup {Sent(BuildRegistrationRequest(key), dest)}
    /\ last' = Step("send_registration", dest)
    /\ UNCHANGED <<hlcVars, fedVars, syncVars, replies, initiator_peers, admitted, runVars>>

NextAuth ==
    \/ \E dest \in Nodes : SendRegistration("kA", dest)
    \/ \E m \in wire, now_us \in Wall :
          m.dest = Self /\ HandleRegistration(m.req, now_us)
    \/ \E req \in IntruderRequests, now_us \in Wall : HandleRegistration(req, now_us)
    \/ \E k \in Keys : RemovePeer(HexEncode(k))

SpecAuth == Init /\ [][NextAuth]_vars

(***************************************************************************)
(* Mutual registration.  The node holding kA is the initiator: it sends    *)
(* its request to this node and processes the response it gets back.  This *)
(* node's policy and registry vary meanwhile.                              *)
(***************************************************************************)
\* responses the initiator may be handed that this node never gave: accepted
\* with a signature that is not hex, too short, or over another nonce, and a
\* rejection without a reason
OtherResponses ==
    { RegistrationResponse(TRUE, << >>, SelfKey, EndpointOf(SelfKey), "nonce", str) :
        str \in { SigString(FALSE, 0, Sign(SelfKey, "nonce")),
                  SigString(TRUE, SIGNATURE_LEN - 1, Sign(SelfKey, "nonce")),
                  HexEncodeSig(Sign(SelfKey, "stale")) } }
        \cup { RegistrationResponse(FALSE, << >>, SelfKey, EndpointOf(SelfKey), "",
                                    EmptySigString) }

\* FederationState::handle_registration_response on the initiator
InitiatorHandleRegistrationResponse(resp, now_us) ==
    /\ initiator_peers' = RegistrationResponseInsert(initiator_peers, resp, now_us)
    /\ last' = Step("initiator_handle_registration_response",
                    [resp |-> resp, result |-> RegistrationResponseCheck(resp)])
    /\ UNCHANGED <<hlcVars, fedVars, syncVars, wire, replies, admitted,
                   runVars>>

\* FederationState::remove_peer on the initiator
InitiatorRemovePeer(pubkey_hex) ==
    /\ initiator_peers' = RemovePeerIn(initiator_peers, pubkey_hex)
    /\ last' = Step("initiator_remove_peer", pubkey_hex \in DOMAIN initiator_peers)
    /\ UNCHANGED <<hlcVars, fedVars, syncVars, wire, replies, admitted,
                   runVars>>

NextMutual ==
    \/ SendRegistration("kA", Self)
    \/ \E m \in wire, now_us \in Wall : HandleRegistration(m.req, now_us)
    \/ \E now_us \in Wall : HandleRegistration(BuildRegistrationRequest("kB"), now_us)
    \/ \E resp \in replies \cup OtherResponses, now_us \in Wall :
          InitiatorHandleRegistrationResponse(resp, now_us)
    \/ \E k \in Keys : RemovePeer(HexEncode(k))
    \/ InitiatorRemovePeer(HexEncode(SelfKey))
    \/ \E m \in {0, 1, DEFAULT_MAX_PEERS} : SetPolicy(m)

SpecMutual == Init /\ [][NextMutual]_vars

(***************************************************************************)
(* The peer limit.  The policy is set while the registry is empty and then *)
(* stays; requests and responses of every remote key arrive in any order,  *)
(* and handle_registration calls overlap: a call takes the policy and peers*)
(* read locks for its checks, drops them, and takes the peers write lock   *)
(* for the insert.                                                         *)
(***************************************************************************)
\* accepting responses of remote nodes, and a rejection
RemoteResponses ==
    { RegistrationResponse(TRUE, << >>, k, EndpointOf(k), "nonce",
                           HexEncodeSig(Sign(k, "nonce"))) : k \in Keys }
        \cup { RegistrationResponse(FALSE, <<"peer limit reached", 1, 1>>, "kA",
                                    EndpointOf("kA"), "", EmptySigString) }

\* handle_registration, lines 270-302, of a call that passes the checks: the
\* read locks are dropped and the insert is still to come
HandleRegistrationChecks(req) ==
    /\ RegistrationCheck(peers, max_peers, req) = <<"accept">>
    /\ req \notin admitted
    /\ admitted' = admitted \cup {req}
    /\ last' = Step("handle_registration_checks", req)
    /\ UNCHANGED <<hlcVars, fedVars, syncVars, wire, replies, initiator_peers,
                   runVars>>

\* handle_registration, lines 304-344, of a call that passed the checks
HandleRegistrationInsert(req, now_us) ==
    /\ req \in admitted
    /\ admitted' = admitted \ {req}
    /\ peers' = MapInsert(peers, HexEncode(req.public_key),
                          PeerInfo("Online", now_us, FALSE, req.endpoint))
    /\ last' = Step("handle_registration_insert",
                    [req |-> req, resp |-> AcceptRegistration])
    /\ UNCHANGED <<hlcVars, seen_events, max_peers, push, npush, syncVars,
                   wire, replies, initiator_peers, runVars>>

NextLimit ==
    \/ \E m \in 1..MaxPolicy :
          peers = EmptyMap /\ admitted = {} /\ SetPolicy(m)
    \/ \E k \in Keys, now_us \in Wall :
          HandleRegistration(BuildRegistrationRequest(k), now_us)
    \/ \E k \in Keys : HandleRegistrationChecks(BuildRegistrationRequest(k))
    \/ \E req \in admitted, now_us \in Wall : HandleRegistrationInsert(req, now_us)
    \/ \E resp \in RemoteResponses, now_us \in Wall :
          HandleRegistrationResponse(resp, now_us)
    \/ \E k \in Keys : RemovePeer(HexEncode(k))

SpecLimit == Init /\ [][NextLimit]_vars

(***************************************************************************)
(* The life of a registry entry: registration in both directions, removal, *)
(* the pull endpoint (http_api.rs) and the sync cursor.                    *)
(***************************************************************************)
\* http_api.rs:924  a public key is 32 bytes
PUBLIC_KEY_LEN == 32

\* FederationPullQuery.pubkey when present: the string (hex or not, in lower
\* case or not) and the bytes it decodes to
PubkeyString(is_hex, lower, len, bytes) ==
    [is_hex |-> is_hex, lower |-> lower, len |-> len, sig |-> bytes]

\* None
NoPubkey == << >>

\* the pubkey parameters tried: none, the hex of each key in lower and upper
\* case, hex of 31 bytes, and a string that is not hex
PullPubkeys ==
    {NoPubkey}
        \cup { PubkeyString(TRUE, l, PUBLIC_KEY_LEN, k) :
                 l \in BOOLEAN, k \in Keys \cup {BadKey} }
        \cup { PubkeyString(TRUE, TRUE, PUBLIC_KEY_LEN - 1, "kA"),
               PubkeyString(FALSE, TRUE, 0, "kA") }

\* the registry key a pubkey string names: hex::encode gives lower case
RegistryKey(str) ==
    IF str.lower THEN HexEncode(str.sig) ELSE <<"HEX", str.sig>>

\* federation_pull_events, lines 922-924: the bytes of a well-formed pubkey
\* parameter
WellFormedPubkey(pubkey) ==
    /\ pubkey # NoPubkey
    /\ HexDecode(pubkey).ok
    /\ HexDecode(pubkey).len = PUBLIC_KEY_LEN

EventPullResponse(sender_hlc) ==
    [ok |-> TRUE, events |-> << >>, head_seq |-> 0, has_more |-> FALSE,
     sender_hlc |-> sender_hlc]

UnknownPeerResponse == [ok |-> FALSE, error |-> "Unknown peer"]

\* the handler panicked in clock.tick(): no response body
NoResponse == [ok |-> FALSE, error |-> "panic"]

\* http_api.rs federation_pull_events
FederationPullEvents(pubkey, t_touch, now_us) ==
    LET r == ClockTick(Clock(hlc[Self], poisoned[Self]), now_us, overflow_checks)
        refused == IF WellFormedPubkey(pubkey)
                   THEN ~IsKnownPeer(peers, HexDecode(pubkey).bytes)
                   ELSE FALSE
    IN  /\ ncalls < MaxPulls
        /\ ncalls' = ncalls + 1
        /\ IF refused
           THEN /\ UNCHANGED <<peers, hlc, poisoned>>
                /\ last' = Step("federation_pull_events",
                                [pubkey |-> pubkey, resp |-> UnknownPeerResponse])
           ELSE /\ peers' = IF WellFormedPubkey(pubkey)
                            THEN TouchPeer(peers, RegistryKey(pubkey), t_touch)
                            ELSE peers
                /\ hlc' = [hlc EXCEPT ![Self] = r.clock.state]
                /\ poisoned' = [poisoned EXCEPT ![Self] = r.clock.poisoned]
                /\ last' = Step("federation_pull_events",
                                [pubkey |-> pubkey,
                                 resp |-> IF r.ret = "panic" THEN NoResponse
                                          ELSE EventPullResponse(r.clock.state)])
        /\ UNCHANGED <<overflow_checks, returned, ticked, causal, seen_events,
                       max_peers, push, npush, syncVars, netVars>>

\* FederationState::update_peer_sync_seq
UpdatePeerSyncSeq(pubkey_hex, seq) ==
    /\ peers' = UpdatePeerSyncSeqIn(peers, pubkey_hex, seq)
    /\ last' = Step("update_peer_sync_seq", pubkey_hex)
    /\ UNCHANGED <<hlcVars, seen_events, max_peers, push, npush, syncVars, netVars>>

NextPeers ==
    \/ \E k \in Keys, now_us \in Wall :
          HandleRegistration(BuildRegistrationRequest(k), now_us)
    \/ \E resp \in RemoteResponses, now_us \in Wall :
          HandleRegistrationResponse(resp, now_us)
    \/ \E k \in Keys \cup {BadKey} : RemovePeer(HexEncode(k))
    \/ \E pubkey \in PullPubkeys, t_touch \in Wall, now_us \in Wall :
          FederationPullEvents(pubkey, t_touch, now_us)
    \/ \E k \in Keys : UpdatePeerSyncSeq(HexEncode(k), 1)

SpecPeers == Init /\ [][NextPeers]_vars

(***************************************************************************)
(* Outbound fan-out.  Peers register while no fan-out runs and are removed *)
(* at any moment; the spawned tasks finish in any order, each with success *)
(* or with an error.                                                       *)
(***************************************************************************)
\* push_to_all_peers, lines 394-413: list_peers(), clock.tick(), the spawns
PushToAllPeersBegin(now_us) ==
    LET r == ClockTick(Clock(hlc[Self], poisoned[Self]), now_us, overflow_checks) IN
    /\ ~fanout.active
    /\ ncalls < MaxFanouts
    /\ ncalls' = ncalls + 1
    /\ hlc' = [hlc EXCEPT ![Self] = r.clock.state]
    /\ poisoned' = [poisoned EXCEPT ![Self] = r.clock.poisoned]
    /\ IF r.ret = "panic"
       THEN /\ fanout' = NoFanout
            /\ last' = Step("push_to_all_peers_begin", "panic")
       ELSE /\ \E order \in Orders(ListPeers(peers)) :
                 fanout' = Fanout(peers, r.clock.state,
                                  SpawnAll(peers, order, r.clock.state))
            /\ last' = Step("push_to_all_peers_begin", r.clock.state)
    /\ UNCHANGED <<overflow_checks, returned, ticked, causal, fedVars, syncVars,
                   wire, replies, initiator_peers, admitted, pulling>>

\* push_to_peer in a spawned task
PushToPeer(i, result) ==
    /\ fanout.active
    /\ i \in 1..Len(fanout.handles)
    /\ fanout.handles[i].state = "running"
    /\ fanout' = [fanout EXCEPT !.handles[i].state = result]
    /\ last' = Step("push_to_peer", [fanout.handles[i] EXCEPT !.state = result])
    /\ UNCHANGED <<hlcVars, fedVars, syncVars, wire, replies, initiator_peers,
                   admitted, pulling>>

\* push_to_all_peers, lines 415-428: handle.await returns for the next handle
PushToAllPeersAwait ==
    /\ fanout.active
    /\ fanout.awaited < Len(fanout.handles)
    /\ fanout.handles[fanout.awaited + 1].state # "running"
    /\ fanout' = AwaitHandle(fanout)
    /\ last' = Step("push_to_all_peers_await", fanout.awaited + 1)
    /\ UNCHANGED <<hlcVars, fedVars, syncVars, wire, replies, initiator_peers,
                   admitted, pulling>>

\* push_to_all_peers, line 430: every handle awaited, the results returned
PushToAllPeersReturn ==
    /\ fanout.active
    /\ fanout.awaited = Len(fanout.handles)
    /\ fanout' = NoFanout
    /\ last' = Step("push_to_all_peers", fanout)
    /\ UNCHANGED <<hlcVars, fedVars, syncVars, wire, replies, initiator_peers,
                   admitted, pulling>>

NextFanout ==
    \/ \E now_us \in Wall : PushToAllPeersBegin(now_us)
    \/ \E i \in 1..Cardinality(Keys), result \in {"ok", "err"} : PushToPeer(i, result)
    \/ PushToAllPeersAwait
    \/ PushToAllPeersReturn
    \/ \E k \in Keys, now_us \in Wall :
          ~fanout.active /\ HandleRegistration(BuildRegistrationRequest(k), now_us)
    \/ \E k \in Keys : RemovePeer(HexEncode(k))

SpecFanout == Init /\ [][NextFanout]_vars

(***************************************************************************)
(* Catch-up pull.  Peers register while no pull runs and are removed at    *)
(* any moment.  The call pulls from the listed peers one after the other;  *)
(* a pull fails or brings a response, whose events then go through         *)
(* process_push before the sync cursor is moved.                           *)
(***************************************************************************)
\* the events a remote peer may return: a well-formed event of kA, and one
\* whose signature does not verify
PulledEvents ==
    { SignedEvent(<<1>>, "kA", Sign("kA", <<1>>), ContentHash(<<1>>)),
      SignedEvent(<<2>>, "kB", Sign("kA", <<2>>), ContentHash(<<2>>)) }

\* the responses a remote peer may give: up to MaxBatch events, a head
\* sequence, and its clock (hostile or not)
PullResponses ==
    { RemotePullResponse(events, head_seq, sender_hlc) :
        events \in {<< >>} \cup { <<e>> : e \in PulledEvents },
        head_seq \in 1..MaxHeadSeq,
        sender_hlc \in { HlcTs(1, U32Zero, 9), HlcTs(MaxWall, U32_MAX, 9) } }

\* pull_from_all_peers, lines 440-444: list_peers()
PullFromAllPeersBegin ==
    /\ ~pulling.active
    /\ ~push.active
    /\ ncalls < MaxPullRuns
    /\ ncalls' = ncalls + 1
    /\ \E order \in Orders(ListPeers(peers)) :
          pulling' = Pulling([i \in 1..Len(order) |-> Listed(peers, order[i])],
                             1, << >>, npush, << >>)
    /\ last' = Step("pull_from_all_peers_begin", << >>)
    /\ UNCHANGED <<overflow_checks, hlc, poisoned, returned, ticked, causal,
                   fedVars, syncVars, wire, replies, initiator_peers, admitted,
                   fanout>>

\* pull_from_all_peers, lines 446-454 and 479-482: a Removed entry is skipped;
\* pull_from_peer returns Err, which is recorded
PullFromPeerErr ==
    LET peer == pulling.order[pulling.index] IN
    /\ pulling.active
    /\ pulling.index <= Len(pulling.order)
    /\ pulling.response = << >>
    /\ pulling' = [pulling EXCEPT
                     !.index = @ + 1,
                     !.results = IF peer.status = "Removed" THEN @
                                 ELSE Append(@, [peer_id |-> peer.pubkey_hex,
                                                 result |-> "err"])]
    /\ last' = Step("pull_from_peer", [peer |-> peer, result |-> "err"])
    /\ UNCHANGED <<hlcVars, fedVars, syncVars, wire, replies, initiator_peers,
                   admitted, fanout>>

\* pull_from_all_peers, lines 454-461: pull_from_peer returns Ok(response)
PullFromPeerOk(response) ==
    LET peer == pulling.order[pulling.index] IN
    /\ pulling.active
    /\ pulling.index <= Len(pulling.order)
    /\ pulling.response = << >>
    /\ peer.status # "Removed"
    /\ npush < MaxPushes
    /\ pulling' = [pulling EXCEPT !.response = response, !.npush0 = npush]
    /\ last' = Step("pull_from_peer", [peer |-> peer, result |-> "ok"])
    /\ UNCHANGED <<hlcVars, fedVars, syncVars, wire, replies, initiator_peers,
                   admitted, fanout>>

\* the process_push call of line 463 has not begun / has returned
ProcessPushPending == pulling.response # << >> /\ npush = pulling.npush0
ProcessPushReturned ==
    pulling.response # << >> /\ npush > pulling.npush0 /\ ~push.active

\* pull_from_all_peers, lines 465-477: update_peer_sync_seq and the result
PullFromPeerDone ==
    LET peer == pulling.order[pulling.index] IN
    /\ pulling.active
    /\ ProcessPushReturned
    /\ ~poisoned[Self]
    /\ peers' = UpdatePeerSyncSeqIn(peers, peer.pubkey_hex, pulling.response.head_seq)
    /\ pulling' = [pulling EXCEPT
                     !.index = @ + 1,
                     !.response = << >>,
                     !.results = Append(@, [peer_id |-> peer.pubkey_hex,
                                            result |-> "ok"])]
    /\ last' = Step("pull_from_peer_done",
                    [peer |-> peer, head_seq |-> pulling.response.head_seq])
    /\ UNCHANGED <<hlcVars, seen_events, max_peers, push, npush, syncVars,
                   wire, replies, initiator_peers, admitted, fanout>>

\* process_push panicked in the clock: the call is over, nothing returned
PullFromAllPeersPanic ==
    /\ pulling.active
    /\ ProcessPushReturned
    /\ poisoned[Self]
    /\ pulling' = NoPulling
    /\ last' = Step("pull_from_all_peers_panic", << >>)
    /\ UNCHANGED <<hlcVars, fedVars, syncVars, wire, replies, initiator_peers,
                   admitted, fanout>>

\* pull_from_all_peers, line 485: the loop is over, the results returned
PullFromAllPeersReturn ==
    /\ pulling.active
    /\ pulling.index > Len(pulling.order)
    /\ pulling' = NoPulling
    /\ last' = Step("pull_from_all_peers", pulling)
    /\ UNCHANGED <<hlcVars, fedVars, syncVars, wire, replies, initiator_peers,
                   admitted, fanout>>

NextPull ==
    \/ PullFromAllPeersBegin
    \/ PullFromPeerErr
    \/ \E response \in PullResponses : PullFromPeerOk(response)
    \/ \E now_us \in Wall :
          ProcessPushPending /\ PushBegin(pulling.response.sender_hlc, now_us)
    \/ /\ pulling.response # << >>
       /\ push.n < Len(pulling.response.events)
       /\ PushEvent(pulling.response.events[push.n + 1])
    \/ \E now_us \in Wall :
          /\ pulling.response # << >>
          /\ push.n = Len(pulling.response.events)
          /\ PushEnd(now_us)
    \/ PullFromPeerDone
    \/ PullFromAllPeersPanic
    \/ PullFromAllPeersReturn
    \/ \E k \in Keys, now_us \in Wall :
          ~pulling.active /\ HandleRegistration(BuildRegistrationRequest(k), now_us)
    \/ \E k \in Keys : RemovePeer(HexEncode(k))

SpecPull == Init /\ [][NextPull]_vars

(***************************************************************************)
(* VectorClock (message.rs) applied to every pair of clocks over the node  *)
(* ids, a component being absent, 0 or up to MaxComponent.                 *)
(***************************************************************************)
VectorClocks ==
    UNION { [ids -> 0..MaxComponent] : ids \in SUBSET Nodes }

\* a.merge(&b)
VectorClockMerge(a, b) ==
    /\ last' = Step("merge", [self |-> a, other |-> b, result |-> VcMerge(a, b)])
    /\ UNCHANGED <<hlcVars, fedVars, syncVars, netVars, runVars>>

\* a.happened_before(&b) and a.is_concurrent(&b)
VectorClockCompare(a, b) ==
    /\ last' = Step("happened_before",
                    [self |-> a, other |-> b,
                     result |-> HappenedBefore(a, b),
                     concurrent |-> IsConcurrent(a, b)])
    /\ UNCHANGED <<hlcVars, fedVars, syncVars, netVars, runVars>>

NextVc ==
    \/ \E a, b \in VectorClocks : VectorClockMerge(a, b)
    \/ \E a, b \in VectorClocks : VectorClockCompare(a, b)

SpecVc == Init /\ [][NextVc]_vars

(***************************************************************************)
(* SyncManager on the mobile node                                          *)
(***************************************************************************)
\* envelope ids: one more than the seen set may hold
MsgIds == 1..(MaxSeenMessages + 1)

\* the envelopes peers send: envelope i carries its sender's clock at the
\* sender's i-th message; senders, layers and TTLs vary with the id
Envelopes ==
    { Envelope(i, MapInsert(VectorClockNew, IF i % 2 = 1 THEN "peer" ELSE "relay", i),
               IF i % 2 = 1 THEN "Federated" ELSE "Shared", i % 3) : i \in MsgIds }

\* SyncManager::process_incoming(msg)
ProcessIncoming(msg) ==
    /\ \E to_remove \in Halves(seen_messages \cup {msg.id}) :
          LET r == ProcessIncomingStep(seen_messages, vclock, msg,
                                       MaxSeenMessages, to_remove) IN
          /\ seen_messages' = r.seen
          /\ vclock' = r.clock
          /\ last' = Step("process_incoming", [msg |-> msg, decision |-> r.decision])
    /\ presented' = presented \cup {msg}
    /\ UNCHANGED <<hlcVars, fedVars, netVars, mobileVars>>

\* SyncManager::tick
SyncTick ==
    /\ VcGet(vclock, "self") < MaxTicks
    /\ vclock' = VcIncrement(vclock, "self")
    /\ last' = Step("tick", vclock')
    /\ UNCHANGED <<hlcVars, fedVars, netVars, seen_messages, presented, mobileVars>>

NextSync ==
    \/ \E msg \in Envelopes : ProcessIncoming(msg)
    \/ SyncTick

SpecSync == Init /\ [][NextSync]_vars

(***************************************************************************)
(* SignedEvent::sign and SignedEvent::verify (crypto.rs) applied to every  *)
(* payload and identity, and to every event a sender may put together.     *)
(***************************************************************************)
\* SignedEvent::sign(event_bytes, identity) followed by verify()
SignThenVerify(event_bytes, identity) ==
    LET event == SignedEventSign(event_bytes, identity) IN
    /\ last' = Step("sign", [event |-> event, result |-> SignedEventVerify(event)])
    /\ UNCHANGED <<hlcVars, fedVars, syncVars, netVars>>

\* event.verify()
Verify(event) ==
    /\ last' = Step("verify", [event |-> event, result |-> SignedEventVerify(event)])
    /\ UNCHANGED <<hlcVars, fedVars, syncVars, netVars>>

NextVerify ==
    \/ \E b \in Payloads \cup {EmptyBytes}, k \in Keys : SignThenVerify(b, k)
    \/ \E event \in Events : Verify(event)

SpecVerify == Init /\ [][NextVerify]_vars

(***************************************************************************)
(* Forwarding decisions (message.rs, sync.rs): envelopes of every layer,   *)
(* with and without hops left, arrive at the SyncManager.                  *)
(***************************************************************************)
\* one envelope per layer and TTL in 0..MaxTtl, each with its own id
LayeredEnvelopes ==
    { Envelope((l - 1) * (MaxTtl + 1) + t + 1, MapInsert(VectorClockNew, "peer", 1),
               Layers[l], t) : l \in 1..Len(Layers), t \in 0..MaxTtl }

\* msg.should_forward()
ShouldForwardCall(msg) ==
    /\ last' = Step("should_forward", [msg |-> msg, result |-> ShouldForward(msg)])
    /\ UNCHANGED <<hlcVars, fedVars, syncVars, netVars>>

NextForward ==
    \/ \E msg \in LayeredEnvelopes : ProcessIncoming(msg)
    \/ \E msg \in LayeredEnvelopes : ShouldForwardCall(msg)

SpecForward == Init /\ [][NextForward]_vars

(***************************************************************************)
(* The outbound side of the SyncManager (sync.rs).  prepare_outbound takes *)
(* the clock lock in tick() and, after releasing it, the lock of the queue *)
(* it pushes to: two steps, between which other threads run.  The batch    *)
(* accessors and remove_peer run under one queue lock: one step each.      *)
(***************************************************************************)
\* the nodes direct messages are addressed to
Recipients == {"peer", "relay"}

\* envelopes handed to prepare_outbound: MessageEnvelope::new gives TTL 0, 1
\* and 3 to Private, Shared and Federated; a forwarder hands in a Federated
\* envelope whose TTL has run down to 0
OutboundMessages ==
    { MessageEnvelope("app", VectorClockNew, "Private", 0, DirectMessage("peer")),
      MessageEnvelope("app", VectorClockNew, "Shared", 1, Broadcast),
      MessageEnvelope("app", VectorClockNew, "Shared", 1, DirectMessage("peer")),
      MessageEnvelope("app", VectorClockNew, "Shared", 1, DirectMessage("relay")),
      MessageEnvelope("app", VectorClockNew, "Federated", 0, Broadcast),
      MessageEnvelope("app", VectorClockNew, "Federated", DEFAULT_TTL, DirectMessage("peer")) }

\* the history kept for queue q
LogOf(log, q) == IF q \in DOMAIN log THEN log[q] ELSE << >>

\* prepare_outbound(msg), lines 175-182: tick() and the stamping of msg
PrepareOutboundTick(t, msg) ==
    /\ preparing[t] = NoEnvelope
    \* threads are alike: the lowest idle one takes the call
    /\ \A u \in Threads : u < t => preparing[u] # NoEnvelope
    /\ VcGet(vclock, "self") < MaxPrepared
    /\ vclock' = VcIncrement(vclock, "self")
    /\ preparing' = [preparing EXCEPT ![t] = Stamp(msg, vclock', "self", DEFAULT_TTL)]
    /\ last' = Step("prepare_outbound_tick", t)
    /\ UNCHANGED <<storeVars, farVars, hlcVars, fedVars, netVars, seen_messages, presented,
                   outbound_federated, outbound_shared, enqueued, batches>>

\* prepare_outbound, lines 184-207: the push under the queue's lock and the
\* return of the stamped envelope
PrepareOutboundEnqueue(t) ==
    LET msg == preparing[t]
        q == QueueFor(msg)
        before == IF q = GossipQueue THEN outbound_federated
                  ELSE SharedQueueOf(outbound_shared, msg.payload.to)
        after == PushIfRoom(before, msg, MaxOutboundQueue)
    IN
    /\ msg # NoEnvelope
    /\ IF q = GossipQueue
       THEN /\ outbound_federated' = after
            /\ UNCHANGED outbound_shared
       ELSE IF q = NoQueue
       THEN UNCHANGED <<outbound_federated, outbound_shared>>
       ELSE /\ outbound_shared' = MapInsert(outbound_shared, msg.payload.to, after)
            /\ UNCHANGED outbound_federated
    /\ enqueued' = IF q # NoQueue /\ after # before
                   THEN MapInsert(enqueued, q, Append(LogOf(enqueued, q), msg))
                   ELSE enqueued
    /\ preparing' = [preparing EXCEPT ![t] = NoEnvelope]
    /\ last' = Step("prepare_outbound",
                    [thread |-> t, returned |-> msg, queue |-> q,
                     full |-> q # NoQueue /\ after = before])
    /\ UNCHANGED <<storeVars, farVars, hlcVars, fedVars, netVars, seen_messages, vclock, presented, batches>>

\* get_gossip_batch(limit)
GetGossipBatch(limit) ==
    LET d == Drain(outbound_federated, limit) IN
    /\ outbound_federated' = d.queue
    /\ batches' = MapInsert(batches, GossipQueue, LogOf(batches, GossipQueue) \o d.batch)
    /\ last' = Step("get_gossip_batch", d.batch)
    /\ UNCHANGED <<storeVars, farVars, hlcVars, fedVars, netVars, seen_messages, vclock, presented,
                   outbound_shared, preparing, enqueued>>

\* get_peer_sync_batch(peer_id, limit)
GetPeerSyncBatch(peer_id, limit) ==
    LET d == Drain(SharedQueueOf(outbound_shared, peer_id), limit) IN
    /\ outbound_shared' = IF peer_id \in DOMAIN outbound_shared
                          THEN MapInsert(outbound_shared, peer_id, d.queue)
                          ELSE outbound_shared
    /\ batches' = MapInsert(batches, SharedQueue(peer_id),
                            LogOf(batches, SharedQueue(peer_id)) \o d.batch)
    /\ last' = Step("get_peer_sync_batch", d.batch)
    /\ UNCHANGED <<storeVars, farVars, hlcVars, fedVars, netVars, seen_messages, vclock, presented,
                   outbound_federated, preparing, enqueued>>

\* remove_peer(peer_id): the peer's queue goes with it
SyncRemovePeer(peer_id) ==
    /\ peer_id \in DOMAIN outbound_shared
    /\ outbound_shared' = [p \in DOMAIN outbound_shared \ {peer_id} |-> outbound_shared[p]]
    /\ last' = Step("remove_peer", peer_id)
    /\ UNCHANGED <<storeVars, farVars, hlcVars, fedVars, netVars, seen_messages, vclock, presented,
                   outbound_federated, preparing, enqueued, batches>>

NextOutbound ==
    \/ \E t \in Threads, msg \in OutboundMessages : PrepareOutboundTick(t, msg)
    \/ \E t \in Threads : PrepareOutboundEnqueue(t)
    \/ \E limit \in 1..MaxLimit : GetGossipBatch(limit)
    \/ \E peer_id \in Recipients, limit \in 1..MaxLimit : GetPeerSyncBatch(peer_id, limit)
    \/ \E peer_id \in Recipients : SyncRemovePeer(peer_id)

SpecOutbound == Init /\ [][NextOutbound]_vars

(***************************************************************************)
(* whats_new_since on a SyncManager whose clock ticks and merges received  *)
(* clocks (sync.rs).                                                       *)
(***************************************************************************)
\* the clocks peers hold and send: components absent, 0 or up to MaxComponent
PeerClocks ==
    UNION { [ids -> 0..MaxComponent] : ids \in SUBSET {"self", "peer"} }

\* SyncManager::merge_clock(received)
MergeClock(received) ==
    /\ vclock' = VcMerge(vclock, received)
    /\ last' = Step("merge_clock", received)
    /\ UNCHANGED <<hlcVars, fedVars, netVars, seen_messages, presented, mobileVars>>

\* SyncManager::whats_new_since(since); the ranges come in the order the
\* HashMap of the clock iterates
WhatsNewSince(since) ==
    /\ \E ranges \in Orders(NewFrom(vclock, since)) :
          last' = Step("whats_new_since",
                       [since |-> since,
                        result |-> WhatsNew(ranges, vclock),
                        has_updates |-> HasUpdates(WhatsNew(ranges, vclock))])
    /\ UNCHANGED <<hlcVars, fedVars, syncVars, netVars>>

NextWhatsNew ==
    \/ SyncTick
    \/ \E received \in PeerClocks : MergeClock(received)
    \/ \E since \in PeerClocks \cup {vclock} : WhatsNewSince(since)

SpecWhatsNew == Init /\ [][NextWhatsNew]_vars

(***************************************************************************)
(* The MemoryStore (store.rs): messages are stored, conversations marked   *)
(* read and the unread count asked for.                                    *)
(***************************************************************************)
\* message ids
StoredIds == 1..MaxStored

\* the envelopes stored: a DM from peer, a DM to relay, a broadcast
StoredMessages ==
    { MessageEnvelope("peer", VectorClockNew, "Shared", 1, DirectMessage("self")),
      MessageEnvelope("self", VectorClockNew, "Shared", 1, DirectMessage("relay")),
      MessageEnvelope("peer", VectorClockNew, "Federated", DEFAULT_TTL, Broadcast) }

\* store_message(msg)
StoreMessage(id, msg) ==
    /\ messages' = MapInsert(messages, id, msg)
    /\ last' = Step("store_message", id)
    /\ UNCHANGED <<coreVars, outVars, farVars, read_markers, read_upto>>

\* mark_dms_read(peer_id), the system clock reading now
MarkDmsRead(peer_id, now) ==
    /\ read_markers' = MapInsert(read_markers, peer_id, now)
    /\ read_upto' = MapInsert(read_upto, peer_id, messages)
    /\ last' = Step("mark_dms_read", peer_id)
    /\ UNCHANGED <<coreVars, outVars, farVars, messages>>

\* get_unread_dm_count()
GetUnreadDmCount ==
    /\ last' = Step("get_unread_dm_count", UnreadDmCount(messages, read_markers))
    /\ UNCHANGED <<coreVars, outVars, farVars, storeVars>>

NextStore ==
    \/ \E id \in StoredIds, msg \in StoredMessages : StoreMessage(id, msg)
    \/ \E peer_id \in Recipients, now \in Wall : MarkDmsRead(peer_id, now)
    \/ GetUnreadDmCount

SpecStore == Init /\ [][NextStore]_vars

(***************************************************************************)
(* One live QUIC connection (quic.rs).  The client end is a                *)
(* QuicConnection; the far end is either the QuicConnection of              *)
(* Listener::accept or a foreign QUIC peer that accepts the client's       *)
(* stream and writes bytes of its choice.  ensure_streams opens, with      *)
(* open_bi, a stream of this end's own; nothing in quic.rs calls           *)
(* accept_bi, so what a QuicConnection writes on its stream is read only   *)
(* by a far end that accepts that stream.                                  *)
(***************************************************************************)
\* the envelopes put on the wire by side s
WireEnvelopes(s) ==
    { WireEnvelope(s, 1, SmallLen), WireEnvelope(s, 2, MAX_MESSAGE_LEN) }

\* QuicTransport::connect on one end, Listener::accept (or a foreign peer) on
\* the other
QuicConnect(kind) ==
    /\ remote_kind = "none"
    /\ remote_kind' = kind
    /\ last' = Step("connect", kind)
    /\ UNCHANGED <<coreVars, outVars, storeVars, idVars, lateVars, quic>>

\* a QuicConnection stands at side s
IsQuicConnection(s) ==
    \/ s = "client" /\ remote_kind # "none"
    \/ s = "server" /\ remote_kind = "QuicConnection"

\* conn.send(msg) on side s: ensure_streams, then the frame on the stream
QuicSend(s, msg) ==
    /\ IsQuicConnection(s)
    /\ Len(quic[s].sent) < MaxSent
    /\ quic' = [quic EXCEPT ![s].open = TRUE,
                             ![s].out = @ \o Frame(msg),
                             ![s].sent = Append(@, msg)]
    /\ last' = Step("send", [side |-> s, msg |-> msg])
    /\ UNCHANGED <<coreVars, outVars, storeVars, idVars, lateVars, remote_kind>>

\* conn.recv() on side s is called: ensure_streams, then read_exact waits
QuicRecvBegin(s) ==
    /\ IsQuicConnection(s)
    /\ ~quic[s].waiting
    /\ quic' = [quic EXCEPT ![s].open = TRUE, ![s].waiting = TRUE]
    /\ last' = Step("recv_called", s)
    /\ UNCHANGED <<coreVars, outVars, storeVars, idVars, lateVars, remote_kind>>

\* conn.recv() on side s returns: the bytes it waited for have arrived on
\* the stream this side opened
QuicRecvReturn(s) ==
    /\ quic[s].waiting
    /\ FrameReadable(quic[s].inbox)
    /\ LET r == RecvFrame(quic[s].inbox) IN
       /\ quic' = [quic EXCEPT
                      ![s].waiting = FALSE,
                      ![s].inbox = r.rest,
                      ![s].open = ~r.closed,
                      ![s].delivered = IF r.result.kind = "Ok"
                                       THEN Append(@, r.result.msg) ELSE @,
                      ![s].rejected = @ \/ r.result.kind = "Err"]
       /\ last' = Step("recv", [side |-> s, len |-> Head(quic[s].inbox).len,
                                result |-> r.result,
                                after_reject |-> quic[s].rejected])
    /\ UNCHANGED <<coreVars, outVars, storeVars, idVars, lateVars, remote_kind>>

\* the foreign peer, having accepted the client's stream (which it learns
\* of once the client has written on it), writes a well-formed frame
ForeignWriteFrame(msg) ==
    /\ remote_kind = "foreign"
    /\ quic["client"].out # << >>
    /\ quic["client"].written < MaxWritten
    /\ quic' = [quic EXCEPT !["client"].inbox = @ \o Frame(msg),
                             !["client"].written = @ + 1]
    /\ last' = Step("foreign_write", msg)
    /\ UNCHANGED <<coreVars, outVars, storeVars, idVars, lateVars, remote_kind>>

\* the foreign peer writes a length above the limit; the bytes it writes
\* next are that frame's body
ForeignWriteLen(n) ==
    /\ remote_kind = "foreign"
    /\ quic["client"].out # << >>
    /\ quic["client"].written < MaxWritten
    /\ quic' = [quic EXCEPT !["client"].inbox = Append(@, LenPrefix(n)),
                             !["client"].written = @ + 1]
    /\ last' = Step("foreign_write_len", n)
    /\ UNCHANGED <<coreVars, outVars, storeVars, idVars, lateVars, remote_kind>>

NextQuic ==
    \/ \E kind \in {"QuicConnection", "foreign"} : QuicConnect(kind)
    \/ \E s \in Sides : \E msg \in WireEnvelopes(s) : QuicSend(s, msg)
    \/ \E s \in Sides : QuicRecvBegin(s)
    \/ \E s \in Sides : QuicRecvReturn(s)
    \/ \E msg \in WireEnvelopes("server") : ForeignWriteFrame(msg)
    \/ ForeignWriteLen(MAX_MESSAGE_LEN + 1)

SpecQuic == Init /\ [][NextQuic]_vars

\* every recv is awaited: a side whose QuicConnection can call recv calls
\* it, and a recv whose bytes have arrived returns
SpecQuicLive ==
    /\ SpecQuic
    /\ \A s \in Sides : WF_vars(QuicRecvBegin(s)) /\ WF_vars(QuicRecvReturn(s))

(***************************************************************************)
(* Identity loading: the identity file is created by the first load, may   *)
(* be damaged or removed behind the program's back, and is loaded again at *)
(* every start.                                                            *)
(***************************************************************************)
\* the secret keys OsRng hands out
FreshKeys == {"k1", "k2"}

\* what a damaged identity file may hold: nothing, a truncated key, a key
\* followed by an unreadable manifest or by somebody else's manifest
DamagedFiles ==
    { FileOf(TRUE, 0, NoKey, NoManifest),
      FileOf(TRUE, SECRET_KEY_LENGTH - 1, NoKey, NoManifest),
      FileOf(TRUE, SECRET_KEY_LENGTH + 1, "k1", Garbled),
      FileOf(TRUE, SECRET_KEY_LENGTH + SmallLen, "k1", NodeIdOf("k2")) }

\* TeambookIdentity::load_or_generate()
LoadOrGenerate(fresh) ==
    LET r == LoadOrGenerateStep(identity_file["teambook"], fresh) IN
    /\ identity_file' = [identity_file EXCEPT !["teambook"] = r.file]
    /\ active_identity' = IF r.result.kind = "Ok"
                          THEN [active_identity EXCEPT !["teambook"] = r.result.key]
                          ELSE active_identity
    /\ last' = Step("load_identity", [store |-> "teambook", result |-> r.result])
    /\ UNCHANGED <<coreVars, outVars, storeVars, quicVars, lateVars>>

\* mesh_identity_init(display_name)
MeshIdentityInit(fresh) ==
    LET r == MeshIdentityInitStep(identity_file["mesh"], fresh) IN
    /\ identity_file' = [identity_file EXCEPT !["mesh"] = r.file]
    /\ active_identity' = IF r.result.kind = "Ok"
                          THEN [active_identity EXCEPT !["mesh"] = r.result.key]
                          ELSE active_identity
    /\ last' = Step("load_identity", [store |-> "mesh", result |-> r.result])
    /\ UNCHANGED <<coreVars, outVars, storeVars, quicVars, lateVars>>

\* the file of store w is damaged: a crash in mid-write, a failing disk
DamageFile(w, file) ==
    /\ identity_file' = [identity_file EXCEPT ![w] = file]
    /\ last' = Step("damage_file", w)
    /\ UNCHANGED <<coreVars, outVars, storeVars, quicVars, lateVars, active_identity>>

\* the file of store w is removed; the process restarts without identity
RemoveFile(w) ==
    /\ identity_file[w].exists
    /\ identity_file' = [identity_file EXCEPT ![w] = NoFile]
    /\ active_identity' = [active_identity EXCEPT ![w] = NoKey]
    /\ last' = Step("remove_file", w)
    /\ UNCHANGED <<coreVars, outVars, storeVars, quicVars, lateVars>>

NextIdentity ==
    \/ \E fresh \in FreshKeys : LoadOrGenerate(fresh)
    \/ \E fresh \in FreshKeys : MeshIdentityInit(fresh)
    \/ \E w \in IdentityStores, file \in DamagedFiles : DamageFile(w, file)
    \/ \E w \in IdentityStores : RemoveFile(w)

SpecIdentity == Init /\ [][NextIdentity]_vars

(***************************************************************************)
(* One LwwRegister replicated on two nodes (sync.rs).  Each replica writes  *)
(* under its own NodeId, stamping the write with its system clock, and      *)
(* merges the register the other replica holds at that moment.             *)
(***************************************************************************)
LwwValues == {"value1", "value2"}

\* LwwRegister::new(value, node_id) on replica r
LwwNew(r, value, now_us) ==
    /\ lww[r] = NoRegister
    /\ lww' = [lww EXCEPT ![r] = LwwSetStep(value, now_us, NodeIdBytes(r))]
    /\ last' = Step("lww_new", r)
    /\ UNCHANGED <<exceptCrdtVars, gcounter>>

\* reg.set(value, node_id) on replica r
LwwSet(r, value, now_us) ==
    /\ lww[r] # NoRegister
    /\ lww' = [lww EXCEPT ![r] = LwwSetStep(value, now_us, NodeIdBytes(r))]
    /\ last' = Step("lww_set", r)
    /\ UNCHANGED <<exceptCrdtVars, gcounter>>

\* reg.merge(&other) on replica r, other being the register of replica o
LwwMerge(r, o) ==
    /\ r # o
    /\ lww[r] # NoRegister
    /\ lww[o] # NoRegister
    /\ lww' = [lww EXCEPT ![r] = LwwMergeStep(lww[r], lww[o])]
    /\ last' = Step("lww_merge", [replica |-> r, self |-> lww[r], other |-> lww[o]])
    /\ UNCHANGED <<exceptCrdtVars, gcounter>>

NextLww ==
    \/ \E r \in Replicas, value \in LwwValues, now_us \in Wall : LwwNew(r, value, now_us)
    \/ \E r \in Replicas, value \in LwwValues, now_us \in Wall : LwwSet(r, value, now_us)
    \/ \E r, o \in Replicas : LwwMerge(r, o)

SpecLww == Init /\ [][NextLww]_vars

(***************************************************************************)
(* One GCounter replicated on three nodes (sync.rs).  Each replica counts  *)
(* under its own NodeId and merges the counter another replica holds at    *)
(* that moment.                                                            *)
(***************************************************************************)
\* counter.increment(node_id) on replica r
GCounterInc(r) ==
    /\ GCounterValue(gcounter[r]) < MaxIncrements
    /\ gcounter' = [gcounter EXCEPT ![r] = GCounterIncrement(@, NodeIdBytes(r))]
    /\ last' = Step("gcounter_increment", r)
    /\ UNCHANGED <<exceptCrdtVars, lww>>

\* counter.merge(&other) on replica r, other being the counter of replica o
GCounterMergeFrom(r, o) ==
    /\ gcounter' = [gcounter EXCEPT ![r] = GCounterMerge(@, gcounter[o])]
    /\ last' = Step("gcounter_merge", r)
    /\ UNCHANGED <<exceptCrdtVars, lww>>

NextGCounter ==
    \/ \E r \in CounterReplicas : GCounterInc(r)
    \/ \E r, o \in CounterReplicas : GCounterMergeFrom(r, o)

SpecGCounter == Init /\ [][NextGCounter]_vars

(***************************************************************************)
(* Tasks calling into FederationState, PairingState and the SyncManager.   *)
(* A task runs one call at a time, operation by operation; between two     *)
(* operations of one task the other tasks run.  Task 1 serves              *)
(* registrations and pairing, task 2 the read-only calls, task 3 the       *)
(* administrative calls and task 4 the calls that write the registry.      *)
(***************************************************************************)
TaskCalls(t) ==
    CASE t = 1 -> {"handle_registration", "handle_registration_limit",
                   "handle_registration_response", "validate_code"}
      [] t = 2 -> {"status", "list_peers", "policy", "resolve_token",
                   "process_incoming"}
      [] t = 3 -> {"set_policy", "generate_code", "prepare_outbound"}
      [] t = 4 -> {"remove_peer", "remove_peer_absent", "touch_peer",
                   "process_push"}

\* the operation task t is at
CurrentOp(t) == LockOps(tasks[t].call)[tasks[t].pc]

AtOp(t, op) ==
    /\ tasks[t].call # "idle"
    /\ tasks[t].pc <= Len(LockOps(tasks[t].call))
    /\ CurrentOp(t).op = op

\* a task begins a call
StartCall(t, call) ==
    /\ tasks[t].call = "idle"
    /\ tasks[t].finished < MaxTaskCalls
    /\ tasks' = [tasks EXCEPT ![t] = Task(call, 1, FALSE, @.finished)]
    /\ UNCHANGED <<exceptLockVars, last, locks>>

\* lock.read().await / lock.write().await: the guard is handed out at once
\* when nobody is queued and the guards alive allow it; otherwise the task
\* joins the queue and is suspended
LockAcquire(t) ==
    /\ AtOp(t, "acquire")
    /\ ~tasks[t].waiting
    /\ LET l == CurrentOp(t).lock
           g == Guard(t, CurrentOp(t).mode)
       IN IF locks[l].queue = << >> /\ Compatible(locks[l].holders, g.mode)
          THEN /\ locks' = [locks EXCEPT ![l] = Lock(@.holders \cup {g}, @.queue)]
               /\ tasks' = [tasks EXCEPT ![t] = Task(@.call, @.pc + 1, FALSE, @.finished)]
          ELSE /\ locks' = [locks EXCEPT ![l] = Lock(@.holders, Append(@.queue, g))]
               /\ tasks' = [tasks EXCEPT ![t] = Task(@.call, @.pc, TRUE, @.finished)]
    /\ UNCHANGED <<exceptLockVars, last>>

\* a guard is dropped: the queued tasks that now get their guard resume
LockRelease(t) ==
    /\ AtOp(t, "release")
    /\ LET l == CurrentOp(t).lock
           freed == Lock({ g \in locks[l].holders : g.task # t }, locks[l].queue)
           after == GrantQueued(freed)
           woken == { g.task : g \in after.holders \ freed.holders }
       IN /\ locks' = [locks EXCEPT ![l] = after]
          /\ tasks' = [u \in Tasks |->
                         IF u = t \/ u \in woken
                         THEN Task(tasks[u].call, tasks[u].pc + 1, FALSE, tasks[u].finished)
                         ELSE tasks[u]]
    /\ UNCHANGED <<exceptLockVars, last>>

\* an awaited file operation completes
AwaitFileIo(t) ==
    /\ AtOp(t, "io")
    /\ tasks' = [tasks EXCEPT ![t] = Task(@.call, @.pc + 1, FALSE, @.finished)]
    /\ UNCHANGED <<exceptLockVars, last, locks>>

\* the call returns
CallReturn(t) ==
    /\ tasks[t].call # "idle"
    /\ tasks[t].pc > Len(LockOps(tasks[t].call))
    /\ tasks' = [tasks EXCEPT ![t] = IdleTask(@.finished + 1)]
    /\ UNCHANGED <<exceptLockVars, last, locks>>

\* what the scheduler runs of a task that has begun a call
TaskStep(t) == LockAcquire(t) \/ LockRelease(t) \/ AwaitFileIo(t) \/ CallReturn(t)

NextLocks ==
    \/ \E t \in Tasks : \E call \in TaskCalls(t) : StartCall(t, call)
    \/ \E t \in Tasks : LockAcquire(t)
    \/ \E t \in Tasks : LockRelease(t)
    \/ \E t \in Tasks : AwaitFileIo(t)
    \/ \E t \in Tasks : CallReturn(t)

SpecLocks == Init /\ [][NextLocks]_vars

\* the calls of FederationState alone
NextFederationLocks ==
    \/ \E t \in Tasks : \E call \in TaskCalls(t) \cap FederationCalls : StartCall(t, call)
    \/ \E t \in Tasks : LockAcquire(t)
    \/ \E t \in Tasks : LockRelease(t)
    \/ \E t \in Tasks : AwaitFileIo(t)
    \/ \E t \in Tasks : CallReturn(t)

\* a fair scheduler: a task that can run is run
SpecFederationLocks ==
    Init /\ [][NextFederationLocks]_vars /\ \A t \in Tasks : WF_vars(TaskStep(t))

(***************************************************************************)
(* Concurrent push requests (federation_sync.rs).  Two tasks serve         *)
(* process_push calls on one FederationState.  A call runs up to its next  *)
(* await on a lock of FederationState and is then suspended while the      *)
(* other task runs: the checks up to is_known_peer, is_new_event,          *)
(* mark_event_seen, touch_peer.  The peer registers and is removed         *)
(* meanwhile; the dedup cache is not pruned.                               *)
(***************************************************************************)
\* a well-formed event of the peer holding kA, and one whose content id is
\* that of other bytes
RaceEvents ==
    { SignedEventSign(<<1>>, "kA"),
      SignedEvent(<<1>>, "kA", Sign("kA", <<1>>), ContentHash(<<2>>)) }

\* the batches of a request
RaceBatches == UNION { [1..n -> RaceEvents] : n \in 1..MaxBatch }

\* EventPushRequest.sender_hlc: a clock level with this node's
RaceSenderHlc == HlcTs(1, U32Zero, 9)

\* process_push, lines 158-167
RacePushBegin(t, events, now_us) ==
    LET r == ClockReceive(Clock(hlc[Self], poisoned[Self]), RaceSenderHlc, now_us,
                          overflow_checks)
    IN  /\ ~pushers[t].active
        /\ npush < MaxPushes
        /\ npush' = npush + 1
        /\ hlc' = [hlc EXCEPT ![Self] = r.clock.state]
        /\ poisoned' = [poisoned EXCEPT ![Self] = r.clock.poisoned]
        /\ pushers' = [pushers EXCEPT ![t] =
                          IF r.ret = "panic" THEN NoPushCall
                          ELSE PushCall(events, "checks", PushStart(r.ret = "drift"))]
        /\ watch' = [watch EXCEPT ![t] =
                        IF /\ r.ret # "panic"
                           /\ \A i \in 1..Len(events) :
                                 /\ IsNewEvent(seen_events, ContentIdHex(events[i]))
                                 /\ IsKnownPeer(peers, events[i].origin_pubkey)
                        THEN "undisturbed" ELSE "stale"]
        /\ last' = Step("push_begin", r.ret)
        /\ UNCHANGED <<overflow_checks, ncalls, returned, ticked, causal,
                       peers, seen_events, max_peers, push, accepts, besideFedVars>>

\* process_push, lines 169-221: the next event, up to is_known_peer
RacePushChecks(t) ==
    /\ pushers[t].stage = "checks"
    /\ pushers[t].n < Len(pushers[t].events)
    /\ pushers' = [pushers EXCEPT ![t] = PushCheckStep(@, peers)]
    /\ last' = Step("push_checks", t)
    /\ UNCHANGED <<hlcVars, fedVars, accepts, watch, besideFedVars>>

\* process_push, lines 224-227: is_new_event
RacePushDedup(t) ==
    /\ pushers[t].stage = "is_new_event"
    /\ pushers' = [pushers EXCEPT ![t] = PushDedupStep(@, seen_events)]
    /\ last' = Step("push_dedup", t)
    /\ UNCHANGED <<hlcVars, fedVars, accepts, watch, besideFedVars>>

\* process_push, line 230: mark_event_seen
RacePushMark(t, now_us) ==
    /\ pushers[t].stage = "mark_event_seen"
    /\ seen_events' = MarkEventSeen(seen_events,
                                    ContentIdHex(pushers[t].events[pushers[t].n + 1]),
                                    now_us)
    /\ pushers' = [pushers EXCEPT ![t].stage = "touch_peer"]
    /\ watch' = Disturbed(watch, t)
    /\ last' = Step("push_mark", t)
    /\ UNCHANGED <<hlcVars, peers, max_peers, push, npush, accepts, besideFedVars>>

\* process_push, lines 233-237: touch_peer, accepted += 1
RacePushTouch(t, now_us) ==
    LET event == pushers[t].events[pushers[t].n + 1] IN
    /\ pushers[t].stage = "touch_peer"
    /\ peers' = TouchPeer(peers, OriginPubkeyHex(event), now_us)
    /\ pushers' = [pushers EXCEPT ![t].n = @ + 1, ![t].accepted = @ + 1,
                                  ![t].stage = "checks"]
    /\ accepts' = MapInsert(accepts, ContentIdHex(event),
                            (IF ContentIdHex(event) \in DOMAIN accepts
                             THEN accepts[ContentIdHex(event)] ELSE 0) + 1)
    /\ watch' = Disturbed(watch, t)
    /\ last' = Step("push_accept", t)
    /\ UNCHANGED <<hlcVars, seen_events, max_peers, push, npush, besideFedVars>>

\* process_push, lines 255-264: clock.tick() and the response
RacePushEnd(t, now_us) ==
    LET r == ClockTick(Clock(hlc[Self], poisoned[Self]), now_us, overflow_checks)
        c == pushers[t]
    IN  /\ c.stage = "checks"
        /\ c.n = Len(c.events)
        /\ hlc' = [hlc EXCEPT ![Self] = r.clock.state]
        /\ poisoned' = [poisoned EXCEPT ![Self] = r.clock.poisoned]
        /\ pushers' = [pushers EXCEPT ![t] = NoPushCall]
        /\ last' = IF r.ret = "panic"
                   THEN Step("push_panic", t)
                   ELSE Step("push_response",
                             [request |-> c.events,
                              response |-> EventPushResponse(c.accepted, c.duplicates,
                                               c.rejected, c.errors, r.clock.state),
                              began |-> watch[t]])
        /\ watch' = [watch EXCEPT ![t] = "stale"]
        /\ UNCHANGED <<overflow_checks, ncalls, returned, ticked, causal,
                       peers, seen_events, max_peers, push, npush, accepts,
                       besideFedVars>>

\* FederationState::remove_peer while push requests are served
RaceRemovePeer(pubkey_hex) ==
    /\ peers' = RemovePeerIn(peers, pubkey_hex)
    /\ watch' = Disturbed(watch, 0)
    /\ last' = Step("remove_peer", [pubkey_hex |-> pubkey_hex,
                                    result |-> pubkey_hex \in DOMAIN peers])
    /\ UNCHANGED <<hlcVars, seen_events, max_peers, push, npush, pushers, accepts,
                   besideFedVars>>

NextPushRace ==
    \/ \E t \in Pushers, events \in RaceBatches, now_us \in Wall :
          RacePushBegin(t, events, now_us)
    \/ \E t \in Pushers : RacePushChecks(t)
    \/ \E t \in Pushers : RacePushDedup(t)
    \/ \E t \in Pushers, now_us \in Wall : RacePushMark(t, now_us)
    \/ \E t \in Pushers, now_us \in Wall : RacePushTouch(t, now_us)
    \/ \E t \in Pushers, now_us \in Wall : RacePushEnd(t, now_us)
    \* registrations come between the requests
    \/ \E now_us \in Wall :
          /\ \A t \in Pushers : ~pushers[t].active
          /\ HandleRegistration(BuildRegistrationRequest("kA"), now_us)
    \/ RaceRemovePeer(HexEncode("kA"))

SpecPushRace == Init /\ [][NextPushRace]_vars

(***************************************************************************)
(* process_incoming called from two threads (sync.rs).  A call takes the   *)
(* seen_messages read lock for the check, releases it, takes the write     *)
(* lock for the insert, releases it, and takes the clock lock for the      *)
(* merge: three steps, between which the other thread runs.                *)
(***************************************************************************)
\* lines 142-147: the check under the read lock
IncomingCheck(t, msg) ==
    /\ receiving[t].stage = "none"
    /\ receiving[t].calls < MaxTaskCalls
    /\ presented' = presented \cup {msg}
    /\ IF msg.id \in seen_messages
       THEN /\ receiving' = [receiving EXCEPT ![t] = NoIncoming(@.calls + 1)]
            /\ decisions' = MapInsert(decisions, msg.id,
                                 Decided(DecisionsOf(decisions, msg.id).process,
                                         DecisionsOf(decisions, msg.id).already + 1))
            /\ last' = Step("incoming_return", [thread |-> t, msg |-> msg,
                                                decision |-> AlreadySeen])
       ELSE /\ receiving' = [receiving EXCEPT ![t] = Incoming(msg, "insert", @.calls)]
            /\ last' = Step("incoming_check", t)
            /\ UNCHANGED decisions
    /\ UNCHANGED <<besideSyncVars, seen_messages, vclock>>

\* lines 150-162: the insert under the write lock
IncomingInsert(t) ==
    /\ receiving[t].stage = "insert"
    /\ \E to_remove \in Halves(seen_messages \cup {receiving[t].msg.id}) :
          seen_messages' = SeenInsert(seen_messages, receiving[t].msg.id,
                                      MaxSeenMessages, to_remove)
    /\ receiving' = [receiving EXCEPT ![t].stage = "merge_clock"]
    /\ last' = Step("incoming_insert", t)
    /\ UNCHANGED <<besideSyncVars, vclock, presented, decisions>>

\* lines 164-170: merge_clock under the clock lock, and the decision
IncomingMerge(t) ==
    LET msg == receiving[t].msg IN
    /\ receiving[t].stage = "merge_clock"
    /\ vclock' = VcMerge(vclock, msg.clock)
    /\ receiving' = [receiving EXCEPT ![t] = NoIncoming(@.calls + 1)]
    /\ decisions' = MapInsert(decisions, msg.id,
                         Decided(DecisionsOf(decisions, msg.id).process + 1,
                                 DecisionsOf(decisions, msg.id).already))
    /\ last' = Step("incoming_return", [thread |-> t, msg |-> msg,
                                        decision |-> Process(ShouldForward(msg))])
    /\ UNCHANGED <<besideSyncVars, seen_messages, presented>>

NextIncomingRace ==
    \/ \E t \in Threads, msg \in Envelopes : IncomingCheck(t, msg)
    \/ \E t \in Threads : IncomingInsert(t)
    \/ \E t \in Threads : IncomingMerge(t)

SpecIncomingRace == Init /\ [][NextIncomingRace]_vars

(***************************************************************************)
(* Catching up with a peer's log (federation_sync.rs).  The peer holding   *)
(* kA keeps a log that grows; it answers a pull with the events that       *)
(* follow since_seq, as many as it puts into one response, and says        *)
(* whether more are left.  This node pulls, runs the events through        *)
(* process_push and moves the sync cursor.                                 *)
(***************************************************************************)
\* the remote peer logs another event
RemoteAppend(pubkey_hex) ==
    /\ remote_head[pubkey_hex] < MaxHeadSeq
    /\ remote_head' = [remote_head EXCEPT ![pubkey_hex] = @ + 1]
    /\ UNCHANGED <<besidePullVars, last, pulling, delivered>>

\* pull_from_all_peers, lines 451-461: pull_from_peer(&peer, since_seq, 100, ..)
\* returns Ok with the response the peer served
PullFromPeerServed(count, sender_hlc) ==
    LET peer == pulling.order[pulling.index]
        since_seq == peer.last_synced_seq
        response == ServedPullResponse("kA", remote_head[peer.pubkey_hex], since_seq,
                                       count, sender_hlc)
    IN  /\ pulling.active
        /\ pulling.index <= Len(pulling.order)
        /\ pulling.response = << >>
        /\ peer.status # "Removed"
        /\ npush < MaxPushes
        /\ count \in ServedCounts(remote_head[peer.pubkey_hex], since_seq, PULL_LIMIT)
        /\ pulling' = [pulling EXCEPT !.response = response, !.npush0 = npush]
        /\ delivered' = [delivered EXCEPT ![peer.pubkey_hex] =
                            IF count > 0 /\ since_seq + count > @
                            THEN since_seq + count ELSE @]
        /\ last' = Step("pull_from_peer", [peer |-> peer, result |-> "ok"])
        /\ UNCHANGED <<besidePullVars, remote_head>>

NextResume ==
    \/ RemoteAppend(HexEncode("kA"))
    \/ PullFromAllPeersBegin
    \/ PullFromPeerErr
    \/ \E count \in 0..MaxBatch,
          sender_hlc \in { HlcTs(1, U32Zero, 9), HlcTs(MaxWall, U32_MAX, 9) } :
          PullFromPeerServed(count, sender_hlc)
    \/ \E now_us \in Wall :
          ProcessPushPending /\ PushBegin(pulling.response.sender_hlc, now_us)
    \/ /\ pulling.response # << >>
       /\ push.n < Len(pulling.response.events)
       /\ PushEvent(pulling.response.events[push.n + 1])
    \/ \E now_us \in Wall :
          /\ pulling.response # << >>
          /\ push.n = Len(pulling.response.events)
          /\ PushEnd(now_us)
    \/ PullFromPeerDone
    \/ PullFromAllPeersPanic
    \/ PullFromAllPeersReturn
    \/ \E now_us \in Wall :
          ~pulling.active /\ HandleRegistration(BuildRegistrationRequest("kA"), now_us)
    \/ RemovePeer(HexEncode("kA"))

SpecResume == Init /\ [][NextResume]_vars

(***************************************************************************)
(* prepare_outbound on a SyncManager whose clock also merges the clocks of  *)
(* received envelopes (sync.rs): process_incoming hands msg.clock, as it   *)
(* came off the network, to merge_clock. tick() runs under the clock's     *)
(* write lock: one step; the queue push is a second step.                  *)
(***************************************************************************)
\* envelopes handed to prepare_outbound, one or two per layer
StampMessages ==
    { MessageEnvelope("app", VectorClockNew, "Private", 0, DirectMessage("peer")),
      MessageEnvelope("app", VectorClockNew, "Shared", 1, DirectMessage("peer")),
      MessageEnvelope("app", VectorClockNew, "Federated", 0, Broadcast),
      MessageEnvelope("app", VectorClockNew, "Federated", 1, Broadcast) }

\* clocks of received envelopes: a peer's own progress, and a clock that
\* carries an entry at the top of u64 for this node
ReceivedClocks ==
    { [x \in {"peer"} |-> 1],
      [x \in {"self"} |-> U64_MAX] }

\* prepare_outbound(msg), lines 175-182: tick() and the stamping of msg
StampTick(t, msg) ==
    LET r == VcIncrementU64(vclock, "self", overflow_checks) IN
    /\ preparing[t] = NoEnvelope
    /\ \A u \in Threads : u < t => preparing[u] # NoEnvelope
    /\ Len(stamped) < MaxPrepared
    /\ vclock' = r.clock
    /\ IF r.panicked
       THEN /\ last' = Step("prepare_outbound_panic", [thread |-> t, msg |-> msg])
            /\ UNCHANGED <<preparing, stamped>>
       ELSE /\ preparing' = [preparing EXCEPT ![t] = Stamp(msg, vclock', "self", DEFAULT_TTL)]
            /\ stamped' = Append(stamped, VcGet(vclock', "self"))
            /\ last' = Step("prepare_outbound_tick", [thread |-> t, msg |-> msg])
    /\ UNCHANGED besideStampVars

\* process_incoming, line 165: merge_clock(&msg.clock) of a first-seen envelope
StampMergeClock(received) ==
    /\ vclock' = VcMergeU64(vclock, received)
    /\ last' = Step("merge_clock", received)
    /\ UNCHANGED <<besideStampVars, preparing, stamped>>

NextStamp ==
    \/ \E t \in Threads, msg \in StampMessages : StampTick(t, msg)
    \/ \E t \in Threads : PrepareOutboundEnqueue(t)
    \/ \E received \in ReceivedClocks : StampMergeClock(received)

SpecStamp == Init /\ [][NextStamp]_vars

(***************************************************************************)
(* get_messages_since on a MemoryStore that stores envelopes of two        *)
(* layers (store.rs); every call runs under the lock of `messages`.        *)
(***************************************************************************)
\* vector clocks of stored envelopes and of requesters
SinceClocks ==
    { VectorClockNew, [x \in {"self"} |-> 1], [x \in {"self"} |-> 2],
      [x \in {"peer"} |-> 1] }

\* wall-clock seconds of MessageEnvelope.timestamp
SinceTimestamps == {1, 2}

SinceMessages ==
    { StoredEnvelope(layer, clock, timestamp) :
        layer \in {"Shared", "Federated"}, clock \in SinceClocks,
        timestamp \in SinceTimestamps }

\* get_messages_since(layer, since, limit)
GetMessagesSince(layer, since, limit) ==
    /\ \E result \in MessagesSince(messages, layer, since, limit) :
          last' = Step("get_messages_since",
                       [layer |-> layer, since |-> since, limit |-> limit,
                        result |-> result])
    /\ UNCHANGED <<coreVars, outVars, farVars, storeVars>>

NextSince ==
    \/ \E id \in StoredIds, msg \in SinceMessages : StoreMessage(id, msg)
    \/ \E layer \in {"Shared", "Federated"}, since \in SinceClocks,
          limit \in 1..MaxLimit : GetMessagesSince(layer, since, limit)

SpecSince == Init /\ [][NextSince]_vars

(***************************************************************************)
(* Claims on the Hybrid Logical Clock                                      *)
(***************************************************************************)

\* C1: on one HybridClock every returned timestamp (tick or successful
\* receive) is strictly greater than every timestamp the clock returned
\* earlier.
C1_ReturnedStrictlyIncreasing ==
    \A n \in Nodes :
        \A i, j \in 1..Len(returned[n]) :
            i < j => HlcLess(returned[n][i], returned[n][j])

\* C2: the timestamp returned by an accepted receive(remote) is strictly
\* greater than the clock state before the call and than remote.
C2_ReceiveAdvancesPastBoth ==
    last.kind = "recv" =>
        /\ HlcLess(last.before, last.after)
        /\ HlcLess(last.remote, last.after)

\* C3: receive(remote) returns HlcDriftError exactly when
\* remote.physical_time_us > now_us + MAX_DRIFT_US, and a call that returns
\* the error leaves the clock state as it was.
C3_DriftRejectedExactlyBeyondMax ==
    last.kind \in {"recv", "recv_panic", "drift"} =>
        /\ last.kind = "drift" <=>
              last.remote.physical_time_us > last.now_us + MAX_DRIFT_US
        /\ last.kind = "drift" =>
              /\ last.after = last.before
              /\ hlc[last.node] = last.before

\* C3 witness: a remote exactly MAX_DRIFT_US ahead of the wall clock was
\* accepted (the clock adopted its physical time) and a later remote one
\* microsecond further ahead has just been rejected.
C3_Witness ==
    /\ last.kind = "drift"
    /\ last.remote.physical_time_us = last.now_us + MAX_DRIFT_US + 1
    /\ last.before.physical_time_us = MaxWall + MAX_DRIFT_US

\* C4: a tick() at a node returns a timestamp greater than every tick()
\* timestamp of another node that this node's receive() accepted before.
C4_CausallyLaterIsGreater ==
    last.kind = "tick" =>
        \A t1 \in causal[last.node] : HlcLess(t1, last.after)

(***************************************************************************)
(* Claims on process_push (SpecPush)                                       *)
(***************************************************************************)
IsPushEvent(step) == step.kind = "push_event"

\* an event passing the three checks on the event itself
WellFormed(facts) == ~facts.empty /\ facts.hash_ok /\ facts.sig_ok

C6_ValidEventAcceptedAnywhere ==
    /\ \A i \in DOMAIN push.errors : push.errors[i].reason # "ExcessiveDrift"
    /\ (/\ IsPushEvent(last)
        /\ WellFormed(last.value.facts)
        /\ last.value.facts.known
        /\ ~last.value.facts.cached)
          => /\ last.value.outcome = "accepted"
             /\ push.accepted >= 1
             /\ push.rejected = Len(push.errors)

\* in a batch whose sender_hlc was rejected for drift, the second event is
\* accepted after the first was rejected
C6_Witness ==
    /\ IsPushEvent(last)
    /\ last.value.outcome = "accepted"
    /\ push.drift
    /\ push.n = 2
    /\ push.rejected = 1
    /\ push.accepted = 1

\* C7: an event whose content id is already in the dedup cache only adds one
\* to duplicates; the dedup cache (keys and first-seen times), the registry
\* (last_seen_at and status) and the accepted and rejected counts are as they
\* were before the event.
C7_DuplicateOnlyCounts ==
    [][ (/\ IsPushEvent(last')
         /\ WellFormed(last'.value.facts)
         /\ last'.value.facts.known
         /\ last'.value.facts.cached)
           => /\ push'.duplicates = push.duplicates + 1
              /\ push'.accepted = push.accepted
              /\ push'.rejected = push.rejected
              /\ push'.errors = push.errors
              /\ seen_events' = seen_events
              /\ peers' = peers ]_vars

\* a duplicate met in a later batch than the one that brought the event
C7_Witness ==
    /\ IsPushEvent(last)
    /\ last.value.facts.cached
    /\ last.value.outcome = "duplicate"
    /\ npush = 2
    /\ push.duplicates = 1
    /\ push.accepted = 0

IsIncoming(step) == step.kind = "process_incoming"

\* C9 as stated: the second presentation of an envelope returns AlreadySeen
\* and leaves the vector clock as it was, whatever was processed in between.
C9_SecondPresentationAlreadySeen ==
    [][ (IsIncoming(last') /\ last'.value.msg \in presented)
           => /\ last'.value.decision = AlreadySeen
              /\ vclock' = vclock ]_vars

\* C9 amended: the second presentation of an envelope leaves the vector clock
\* as it was, and returns AlreadySeen as long as no more than
\* max_seen_messages distinct ids have been presented (so nothing was
\* evicted from the seen set).
C9_SecondPresentationUnlessEvicted ==
    [][ (IsIncoming(last') /\ last'.value.msg \in presented)
           => /\ vclock' = vclock
              /\ (Cardinality({m.id : m \in presented}) <= MaxSeenMessages
                    => last'.value.decision = AlreadySeen) ]_vars

\* an envelope presented again after another one, and answered AlreadySeen
C9_Witness ==
    /\ IsIncoming(last)
    /\ last.value.decision = AlreadySeen
    /\ Cardinality(presented) = 2
    /\ Cardinality(seen_messages) = 2

(***************************************************************************)
(* Claims on handle_registration (SpecReg)                                 *)
(***************************************************************************)
IsRegistration(step) == step.kind = "handle_registration"

FormatOk(req) ==
    req.challenge_signature.is_hex /\ req.challenge_signature.len = SIGNATURE_LEN

ProofOk(req) ==
    /\ req.public_key \in Keys
    /\ req.challenge_signature.sig = Sign(req.public_key, req.challenge_nonce)

NonRemoved(ps) == {h \in DOMAIN ps : ps[h].status # "Removed"}

\* C10: handle_registration rejects with the reason of the first failing
\* step, in the order signature format, signature verification, peer limit
\* (max_peers > 0 and non-Removed peers >= max_peers); a rejected request is
\* answered accepted = false and leaves the registry unchanged.
C10_RegistrationValidationOrder ==
    [][ IsRegistration(last') =>
          LET req == last'.value.req
              resp == last'.value.resp
              n == Cardinality(NonRemoved(peers))
              expected ==
                  IF ~FormatOk(req)
                  THEN <<"invalid challenge signature format">>
                  ELSE IF ~ProofOk(req)
                  THEN <<"challenge signature verification failed">>
                  ELSE IF max_peers > 0 /\ n >= max_peers
                  THEN <<"peer limit reached", n, max_peers>>
                  ELSE << >>
          IN  /\ resp.reason = expected
              /\ resp.accepted = (expected = << >>)
              /\ ~resp.accepted => peers' = peers ]_vars

\* a request failing all three steps got the reason of the first
C10_Witness ==
    /\ IsRegistration(last)
    /\ ~FormatOk(last.value.req)
    /\ ~ProofOk(last.value.req)
    /\ max_peers = 1
    /\ Cardinality(NonRemoved(peers)) = 1
    /\ last.value.resp = RejectRegistration(<<"invalid challenge signature format">>)

(***************************************************************************)
(* Claims on registration over an open network (SpecAuth)                  *)
(***************************************************************************)
\* C11: an entry for public key K with endpoint E is in the registry only if
\* a holder of K's secret sent a request naming E to this node: the entry of
\* kA, whose holder only ever names its own endpoint, never carries another
\* endpoint, and exists only once kA's holder has addressed this node.
C11_EntryNeedsKeyHolder ==
    HexEncode("kA") \in DOMAIN peers =>
        /\ peers[HexEncode("kA")].endpoint = EndpointOf("kA")
        /\ \E m \in wire : m.dest = Self /\ m.req.public_key = "kA"


(***************************************************************************)
(* Claims on mutual registration (SpecMutual)                              *)
(***************************************************************************)
BelowLimit == max_peers = 0 \/ ActiveCount(peers) < max_peers

\* C12: when this node, below its peer limit, handles the initiator's request
\* it accepts and records the initiator as a known peer, Online and
\* initiated_by_us = false; when the initiator processes an accepting
\* response of this node its call returns Ok and it records this node as a
\* known peer, Online and initiated_by_us = true; when it processes a
\* rejection of this node its call returns Err with this node's reason and
\* its registry is unchanged.
C12_MutualRegistration ==
    [][ /\ ( /\ IsRegistration(last')
             /\ last'.value.req = BuildRegistrationRequest("kA")
             /\ BelowLimit )
          => /\ last'.value.resp.accepted
             /\ IsKnownPeer(peers', "kA")
             /\ peers'[HexEncode("kA")].status = "Online"
             /\ ~peers'[HexEncode("kA")].initiated_by_us
        /\ ( /\ last'.kind = "initiator_handle_registration_response"
             /\ last'.value.resp \in replies )
          => LET resp == last'.value.resp IN
             IF resp.accepted
             THEN /\ last'.value.result = Ok
                  /\ IsKnownPeer(initiator_peers', SelfKey)
                  /\ initiator_peers'[HexEncode(SelfKey)].status = "Online"
                  /\ initiator_peers'[HexEncode(SelfKey)].initiated_by_us
             ELSE /\ last'.value.result = Err(resp.reason)
                  /\ initiator_peers' = initiator_peers ]_vars

\* the exchange has completed and each node knows the other
C12_Witness ==
    /\ last.kind = "initiator_handle_registration_response"
    /\ last.value.resp \in replies
    /\ last.value.result = Ok
    /\ IsKnownPeer(peers, "kA")
    /\ ~peers[HexEncode("kA")].initiated_by_us
    /\ IsKnownPeer(initiator_peers, SelfKey)
    /\ initiator_peers[HexEncode(SelfKey)].initiated_by_us

(***************************************************************************)
(* Claims on the peer limit and on removal (SpecLimit)                     *)
(***************************************************************************)
\* C13: with max_peers > 0 the registry never holds more than max_peers
\* entries whose status is not Removed.
C13_PeerLimitHolds ==
    max_peers > 0 => ActiveCount(peers) <= max_peers

(***************************************************************************)
(* Claims on removal and on the pull endpoint (SpecPeers)                  *)
(***************************************************************************)
IsRemoved(ps, pubkey_hex) ==
    IF pubkey_hex \in DOMAIN ps THEN ps[pubkey_hex].status = "Removed" ELSE FALSE

\* C14: remove_peer on a registered key returns true, sets the entry's
\* status to Removed, keeps the entry (get_peer still returns it) and changes
\* nothing else; remove_peer on an absent key returns false and changes
\* nothing; and once a key has been removed, from then on is_known_peer is
\* false for it and list_peers and peers_total leave it out.
C14_RemovePeerEffects ==
    [][ /\ last'.kind = "remove_peer" =>
             LET h == last'.value.pubkey_hex IN
             IF h \in DOMAIN peers
             THEN /\ last'.value.result
                  /\ GetPeer(peers', h) = [peers[h] EXCEPT !.status = "Removed"]
                  /\ DOMAIN peers' = DOMAIN peers
                  /\ \A x \in DOMAIN peers \ {h} : peers'[x] = peers[x]
                  /\ h \notin ListPeers(peers')
                  /\ PeersTotal(peers') = Cardinality(ListPeers(peers) \ {h})
             ELSE /\ ~last'.value.result
                  /\ peers' = peers
        /\ \A k \in Keys :
             IsRemoved(peers, HexEncode(k)) =>
                /\ ~IsKnownPeer(peers', k)
                /\ HexEncode(k) \notin ListPeers(peers')
                /\ PeersTotal(peers') =
                      Cardinality(ListPeers(peers') \ {HexEncode(k)}) ]_vars

\* C15: an entry whose status is Removed stays in the registry with status
\* Removed, whatever operation runs next.
C15_RemovalPermanent ==
    [][ \A h \in DOMAIN peers :
          peers[h].status = "Removed" => IsRemoved(peers', h) ]_vars

\* the requester named a registered, non-Removed peer by a well-formed key
VerifiedRequester(pubkey, ps) ==
    IF WellFormedPubkey(pubkey) THEN IsKnownPeer(ps, HexDecode(pubkey).bytes) ELSE FALSE

\* C17: the pull endpoint answers a request whose pubkey is missing, not valid
\* hex, not 32 bytes, unregistered or Removed with an error and no event
\* response, and touches no registry entry for it.
C17_PullOnlyForVerifiedPeer ==
    [][ ( /\ last'.kind = "federation_pull_events"
          /\ ~VerifiedRequester(last'.value.pubkey, peers) )
          => /\ ~last'.value.resp.ok
             /\ peers' = peers ]_vars

(***************************************************************************)
(* Claims on the outbound fan-out (SpecFanout)                             *)
(***************************************************************************)
\* the peers of the tasks, and of the results, of a fan-out
TaskPeers(f) == {f.handles[i].peer : i \in 1..Len(f.handles)}

\* C16: a push_to_all_peers call spawns exactly one task for each peer that
\* is non-Removed in the registry it read at the start and none for any
\* other key; a task's finishing, with success or with an error, changes no
\* other task; the call returns exactly one result per such peer, each the
\* outcome of that peer's own task; every task carries the timestamp returned
\* by the one tick() of the call, and the call ticks the clock only once.
C16_OneTaskAndResultPerPeer ==
    [][ /\ fanout'.active =>
             /\ TaskPeers(fanout') = NonRemoved(fanout'.registry)
             /\ Len(fanout'.handles) = Cardinality(NonRemoved(fanout'.registry))
             /\ \A i \in 1..Len(fanout'.handles) :
                   fanout'.handles[i].sender_hlc = fanout'.sender_hlc
        /\ (~fanout.active /\ fanout'.active) =>
             /\ fanout'.registry = peers
             /\ fanout'.sender_hlc = hlc'[Self]
        /\ fanout.active => hlc' = hlc
        /\ last'.kind = "push_to_peer" =>
             \A i \in 1..Len(fanout.handles) :
                \/ fanout'.handles[i] = fanout.handles[i]
                \/ /\ fanout.handles[i].peer = last'.value.peer
                   /\ fanout'.handles[i] = last'.value
        /\ last'.kind = "push_to_all_peers" =>
             LET f == last'.value IN
             /\ Len(f.results) = Cardinality(NonRemoved(f.registry))
             /\ \A h \in NonRemoved(f.registry) :
                   \E i \in 1..Len(f.results), j \in 1..Len(f.handles) :
                      /\ f.results[i].peer_id = h
                      /\ f.handles[j].peer = h
                      /\ f.results[i].result = f.handles[j].state ]_vars

\* a call over two peers returned an error for one and a success for the
\* other, and a peer has been removed meanwhile
C16_Witness ==
    /\ last.kind = "push_to_all_peers"
    /\ Len(last.value.results) = 2
    /\ \E i, j \in 1..2 :
          /\ last.value.results[i].result = "err"
          /\ last.value.results[j].result = "ok"
    /\ \E h \in DOMAIN peers : peers[h].status = "Removed"

(***************************************************************************)
(* Claims on the catch-up pull (SpecPull)                                  *)
(***************************************************************************)
\* C18: in pull_from_all_peers a failed pull records an Err for its peer,
\* leaves the registry (so every last_synced_seq) as it was and lets the loop
\* go on to the next peer; for a successful pull every event of the response
\* goes through the loop of process_push and the peer's last_synced_seq then
\* becomes the response's head_seq; no other step of the call moves a
\* cursor; the call returns one result per listed peer, in order.
C18_PullMovesCursorOnSuccessOnly ==
    [][ /\ (last'.kind = "pull_from_peer" /\ last'.value.result = "err") =>
             /\ peers' = peers
             /\ pulling'.index = pulling.index + 1
             /\ pulling'.results =
                   Append(pulling.results,
                          [peer_id |-> pulling.order[pulling.index].pubkey_hex,
                           result |-> "err"])
        /\ (pulling.active /\ last'.kind = "push_end") =>
             push.n = Len(pulling.response.events)
        /\ last'.kind = "pull_from_peer_done" =>
             LET h == pulling.order[pulling.index].pubkey_hex IN
             /\ npush = pulling.npush0 + 1
             /\ peers'[h].last_synced_seq = pulling.response.head_seq
             /\ \A x \in DOMAIN peers \ {h} : peers'[x] = peers[x]
             /\ pulling'.index = pulling.index + 1
             /\ pulling'.results = Append(pulling.results,
                                          [peer_id |-> h, result |-> "ok"])
        /\ (pulling.active /\ last'.kind # "pull_from_peer_done") =>
             \A h \in DOMAIN peers :
                peers'[h].last_synced_seq = peers[h].last_synced_seq
        /\ last'.kind = "pull_from_all_peers" =>
             LET f == last'.value IN
             /\ Len(f.results) = Len(f.order)
             /\ \A i \in 1..Len(f.order) :
                   f.results[i].peer_id = f.order[i].pubkey_hex ]_vars

\* a call over two peers returned after one pull failed and the other brought
\* an event that was accepted: the cursor of the second peer moved, that of
\* the first did not
C18_Witness ==
    /\ last.kind = "pull_from_all_peers"
    /\ Len(last.value.results) = 2
    /\ last.value.results[1].result = "err"
    /\ last.value.results[2].result = "ok"
    /\ peers[last.value.results[1].peer_id].last_synced_seq = 0
    /\ peers[last.value.results[2].peer_id].last_synced_seq = MaxHeadSeq
    /\ seen_events # EmptyMap

(***************************************************************************)
(* Claims on VectorClock (SpecVc)                                          *)
(***************************************************************************)
\* C19: merge is idempotent, commutative and associative: for all clocks a,
\* b, c, a.merge(a) leaves a, a.merge(b) and b.merge(a) leave equal clocks,
\* and merging b then c into a leaves what merging (b merged with c) leaves.
C19_MergeLaws ==
    last.kind = "merge" =>
        LET a == last.value.self
            b == last.value.other
            ab == last.value.result
        IN  /\ VcMerge(a, a) = a
            /\ VcMerge(ab, b) = ab
            /\ VcMerge(b, a) = ab
            /\ \A c \in VectorClocks :
                  VcMerge(ab, c) = VcMerge(a, VcMerge(b, c))

\* two clocks with different entries, each ahead of the other somewhere,
\* were merged
C19_Witness ==
    /\ last.kind = "merge"
    /\ DOMAIN last.value.self # DOMAIN last.value.other
    /\ last.value.result # last.value.self
    /\ last.value.result # last.value.other

\* a[k], an absent component counting as 0
Component(vc, k) == IF k \in DOMAIN vc THEN vc[k] ELSE 0

\* C20: happened_before(a, b) is true exactly when a[k] <= b[k] for every
\* node k and a[k] < b[k] for some k, absent components counting as 0; when
\* it is true, happened_before(b, a) is false and a # b; is_concurrent(a, b)
\* is true exactly when neither happened_before(a, b) nor
\* happened_before(b, a) is.
C20_HappenedBeforeIsStrictOrder ==
    last.kind = "happened_before" =>
        LET a == last.value.self
            b == last.value.other
        IN  /\ last.value.result <=>
                  /\ \A k \in Nodes : Component(a, k) <= Component(b, k)
                  /\ \E k \in Nodes : Component(a, k) < Component(b, k)
            /\ last.value.result => ~HappenedBefore(b, a) /\ a # b
            /\ last.value.concurrent <=>
                  (~last.value.result /\ ~HappenedBefore(b, a))

\* a clock without an entry for node 2 was found to have happened before one
\* that differs from it in that entry only
C20_Witness ==
    /\ last.kind = "happened_before"
    /\ last.value.result
    /\ 2 \notin DOMAIN last.value.self
    /\ 1 \in DOMAIN last.value.self
    /\ last.value.other = MapInsert(last.value.self, 2, 1)

(***************************************************************************)
(* Claims on SignedEvent (SpecVerify)                                      *)
(***************************************************************************)
\* the signature of `event` is the one the holder of its origin key makes
\* over its bytes, and the origin key is a valid public key
SignatureMatches(event) ==
    /\ event.origin_pubkey # BadKey
    /\ event.signature.signer = event.origin_pubkey
    /\ event.signature.msg = event.event_bytes

\* C21: an event produced by sign() verifies Ok; verify() answers
\* ContentHashMismatch when content_id is not the hash of event_bytes,
\* whatever the signature; InvalidSignature when the hash matches and the
\* signature is not the origin key's over the bytes (a malformed origin key
\* included); Ok otherwise.
C21_VerifyHashThenSignature ==
    /\ last.kind = "sign" => last.value.result = "Ok"
    /\ last.kind = "verify" =>
          LET event == last.value.event IN
          last.value.result =
              IF event.content_id # ContentHash(event.event_bytes)
              THEN "ContentHashMismatch"
              ELSE IF ~SignatureMatches(event)
              THEN "InvalidSignature"
              ELSE "Ok"

\* an event whose hash and signature are both wrong was answered
\* ContentHashMismatch
C21_Witness ==
    /\ last.kind = "verify"
    /\ last.value.event.content_id # ContentHash(last.value.event.event_bytes)
    /\ ~SignatureMatches(last.value.event)
    /\ last.value.result = "ContentHashMismatch"

(***************************************************************************)
(* Claims on forwarding (SpecForward)                                      *)
(***************************************************************************)
\* what the claim asks of an envelope for it to be forwarded
ForwardExpected(msg) == msg.layer = "Federated" /\ msg.ttl > 0

\* C22: should_forward() and the should_forward flag process_incoming gives
\* for a first-seen envelope are both true exactly when the layer is
\* Federated and the TTL is above 0; an envelope with TTL 0 is never marked
\* for forwarding.
C22_ForwardIffFederatedWithTtl ==
    /\ last.kind = "should_forward" =>
          last.value.result = ForwardExpected(last.value.msg)
    /\ (last.kind = "process_incoming" /\ last.value.decision.decision = "Process") =>
          /\ last.value.decision.should_forward = ForwardExpected(last.value.msg)
          /\ last.value.decision.should_forward = ShouldForward(last.value.msg)

\* a first-seen Federated envelope with TTL 0 was processed and not marked
C22_Witness ==
    /\ last.kind = "process_incoming"
    /\ last.value.decision.decision = "Process"
    /\ last.value.msg.layer = "Federated"
    /\ last.value.msg.ttl = 0
    /\ ~last.value.decision.should_forward

(***************************************************************************)
(* Claims on the outbound queues (SpecOutbound)                            *)
(***************************************************************************)
\* the step is the second half of a prepare_outbound call
IsEnqueue(l, l2) ==
    l2.kind = "prepare_outbound" /\ (l.kind = "prepare_outbound" => l2 # l)

\* queue is unchanged or has msg appended
SameOrAppended(queue2, queue, msg) == queue2 = queue \/ queue2 = Append(queue, msg)

\* all queues keyed by a node id other than `to` are as they were
OtherSharedQueuesUnchanged(to) ==
    \A p \in (DOMAIN outbound_shared \cup DOMAIN outbound_shared') \ {to} :
        /\ p \in DOMAIN outbound_shared
        /\ p \in DOMAIN outbound_shared'
        /\ outbound_shared'[p] = outbound_shared[p]

\* C23: prepare_outbound queues a Federated envelope on the gossip queue
\* only, a Shared direct message on the queue of its `to` node only, and
\* any other Shared envelope and every Private envelope nowhere; no batch
\* ever returned holds a Private envelope, and a batch returned for peer p
\* holds only direct messages addressed to p.
C23_RoutedByLayer ==
    /\ [][IsEnqueue(last, last') =>
            LET msg == last'.value.returned IN
            /\ msg = preparing[last'.value.thread]
            /\ msg.layer = "Federated" =>
                  /\ outbound_shared' = outbound_shared
                  /\ SameOrAppended(outbound_federated', outbound_federated, msg)
            /\ (msg.layer = "Shared" /\ msg.payload.kind = "DirectMessage") =>
                  /\ outbound_federated' = outbound_federated
                  /\ OtherSharedQueuesUnchanged(msg.payload.to)
                  /\ SameOrAppended(SharedQueueOf(outbound_shared', msg.payload.to),
                                    SharedQueueOf(outbound_shared, msg.payload.to), msg)
            /\ (msg.layer = "Private" \/
                (msg.layer = "Shared" /\ msg.payload.kind # "DirectMessage")) =>
                  /\ outbound_federated' = outbound_federated
                  /\ outbound_shared' = outbound_shared
         ]_vars
    /\ [](\A q \in DOMAIN batches : \A i \in DOMAIN batches[q] :
            /\ batches[q][i].layer # "Private"
            /\ q # GossipQueue =>
                  /\ batches[q][i].payload.kind = "DirectMessage"
                  /\ q = SharedQueue(batches[q][i].payload.to))

\* a Private envelope was prepared after batches had been handed out from
\* the gossip queue and from a peer's queue
C23_Witness ==
    /\ last.kind = "prepare_outbound"
    /\ last.value.returned.layer = "Private"
    /\ LogOf(batches, GossipQueue) # << >>
    /\ LogOf(batches, SharedQueue("peer")) # << >>

\* C24: no outbound queue ever holds more than max_outbound_queue
\* envelopes; a prepare_outbound whose queue is full leaves every queue as
\* it was and still returns the stamped envelope to its caller.
C24_QueuesBoundedDropNew ==
    /\ [](/\ Len(outbound_federated) <= MaxOutboundQueue
          /\ \A p \in DOMAIN outbound_shared : Len(outbound_shared[p]) <= MaxOutboundQueue)
    /\ [][(/\ IsEnqueue(last, last')
           /\ QueueFor(preparing[last'.value.thread]) # NoQueue
           /\ Len(IF QueueFor(preparing[last'.value.thread]) = GossipQueue
                  THEN outbound_federated
                  ELSE SharedQueueOf(outbound_shared,
                                     preparing[last'.value.thread].payload.to))
                = MaxOutboundQueue)
          => /\ outbound_federated' = outbound_federated
             /\ outbound_shared' = outbound_shared
             /\ last'.value.returned = preparing[last'.value.thread]
             /\ last'.value.returned.origin = "self"
         ]_vars

\* a Federated envelope was prepared while the gossip queue was full
C24_Witness ==
    /\ last.kind = "prepare_outbound"
    /\ last.value.full
    /\ last.value.queue = GossipQueue
    /\ Len(outbound_federated) = MaxOutboundQueue
    /\ \A i \in DOMAIN outbound_federated : outbound_federated[i] # last.value.returned

\* b is e with some elements left out, the order kept
IsOrderedSubsequence(b, e) ==
    \E f \in [DOMAIN b -> DOMAIN e] :
        /\ \A i \in DOMAIN b : b[i] = e[f[i]]
        /\ \A i, j \in DOMAIN b : i < j => f[i] < f[j]

\* the first min(limit, Len(queue)) envelopes of queue
Oldest(queue, limit) ==
    SubSeq(queue, 1, IF limit < Len(queue) THEN limit ELSE Len(queue))

\* queue without its first min(limit, Len(queue)) envelopes
Rest(queue, limit) ==
    SubSeq(queue, (IF limit < Len(queue) THEN limit ELSE Len(queue)) + 1, Len(queue))

\* C25: get_gossip_batch(n) and get_peer_sync_batch(p, n) return the
\* min(n, length) oldest envelopes of their queue in enqueue order and
\* remove them; the batches returned from a queue, concatenated, are the
\* envelopes enqueued there with their order kept (a prefix of them for the
\* gossip queue), and no envelope is returned twice.
C25_FifoDestructiveDrain ==
    /\ [][/\ \A limit \in 1..MaxLimit : GetGossipBatch(limit) =>
                /\ last'.value = Oldest(outbound_federated, limit)
                /\ outbound_federated' = Rest(outbound_federated, limit)
          /\ \A p \in Recipients, limit \in 1..MaxLimit : GetPeerSyncBatch(p, limit) =>
                /\ last'.value = Oldest(SharedQueueOf(outbound_shared, p), limit)
                /\ SharedQueueOf(outbound_shared', p)
                     = Rest(SharedQueueOf(outbound_shared, p), limit)
         ]_vars
    /\ [](/\ LogOf(batches, GossipQueue) \o outbound_federated
              = LogOf(enqueued, GossipQueue)
          /\ \A q \in DOMAIN batches :
                /\ IsOrderedSubsequence(batches[q], LogOf(enqueued, q))
                /\ \A i, j \in DOMAIN batches[q] :
                       i # j => batches[q][i] # batches[q][j])

\* two envelopes stamped in one order and enqueued in the other have been
\* returned, in enqueue order, by get_gossip_batch
C25_Witness ==
    /\ Len(LogOf(batches, GossipQueue)) >= 2
    /\ VcGet(batches[GossipQueue][1].clock, "self")
         > VcGet(batches[GossipQueue][2].clock, "self")
    /\ last.kind = "get_gossip_batch"
    /\ last.value # << >>

(***************************************************************************)
(* Claims on whats_new_since (SpecWhatsNew)                                *)
(***************************************************************************)
\* the origins of the manager's clock that are ahead of `since`
AheadOf(since) == { n \in DOMAIN vclock : vclock[n] > VcGet(since, n) }

\* C26: whats_new_since(since) returns exactly one range
\* (origin, since[origin] + 1, current[origin]) for every origin whose
\* counter in the manager's clock exceeds since[origin] (absent = 0) and no
\* other range; every range has from <= to; has_updates() is true exactly
\* when there is such an origin; asked since the manager's own clock it
\* returns no range; current_clock is the manager's clock.
C26_WhatsNewRanges ==
    last.kind = "whats_new_since" =>
        LET since == last.value.since
            ranges == last.value.result.ranges
        IN
        /\ \A n \in AheadOf(since) :
              Cardinality({ i \in DOMAIN ranges : ranges[i][1] = n }) = 1
        /\ \A i \in DOMAIN ranges :
              /\ ranges[i][1] \in AheadOf(since)
              /\ ranges[i][2] = VcGet(since, ranges[i][1]) + 1
              /\ ranges[i][3] = vclock[ranges[i][1]]
              /\ ranges[i][2] <= ranges[i][3]
        /\ last.value.has_updates = (AheadOf(since) # {})
        /\ since = vclock => ranges = << >>
        /\ last.value.result.current_clock = vclock

\* two origins were ahead of `since`, one of them by more than one
C26_Witness ==
    /\ last.kind = "whats_new_since"
    /\ Len(last.value.result.ranges) = 2
    /\ \E i \in 1..2 : last.value.result.ranges[i][2] < last.value.result.ranges[i][3]
    /\ last.value.has_updates

(***************************************************************************)
(* Claims on the MemoryStore (SpecStore)                                   *)
(***************************************************************************)
\* message id holds a DM exchanged with a peer whose conversation was marked
\* read when that very message was already stored
IsRead(id) ==
    \E p \in DOMAIN read_upto :
        /\ IsDmWith(messages[id], p)
        /\ id \in DOMAIN read_upto[p]
        /\ read_upto[p][id] = messages[id]

\* C27: get_unread_dm_count counts the stored direct messages except those
\* exchanged with a peer and stored before mark_dms_read was last called
\* for that peer; DMs with other peers and DMs stored later still count.
C27_UnreadCountHonoursWatermark ==
    last.kind = "get_unread_dm_count" =>
        last.value = Cardinality({ id \in DOMAIN messages :
                                     IsDm(messages[id]) /\ ~IsRead(id) })

(***************************************************************************)
(* Claims on the QUIC transport (SpecQuic, SpecQuicLive)                   *)
(***************************************************************************)
\* the step is the return of a recv call
IsRecvReturn(l, l2) == l2.kind = "recv" /\ (l.kind = "recv" => l2 # l)

\* C28: recv on a frame whose length prefix is above 10 MiB returns
\* ProtocolError("Message too large") and delivers no envelope, a prefix of
\* exactly 10 MiB is accepted, and after the error the stream is closed: no
\* later recv on that connection reads the bytes that follow as a frame.
C28_OversizeRejectedStreamClosed ==
    [][IsRecvReturn(last, last') =>
         LET s == last'.value.side IN
         /\ last'.value.len > MAX_MESSAGE_LEN =>
               /\ last'.value.result = RecvErr("ProtocolError: Message too large")
               /\ quic'[s].delivered = quic[s].delivered
         /\ (last'.value.len <= MAX_MESSAGE_LEN /\ ~quic[s].rejected) =>
               last'.value.result.kind = "Ok"
         /\ quic[s].rejected =>
               /\ last'.value.result.kind = "Err"
               /\ quic'[s].inbox = quic[s].inbox
      ]_vars

\* side s has sent its n-th envelope to a QuicConnection
SentNth(s, n) == remote_kind = "QuicConnection" /\ Len(quic[s].sent) >= n

\* the n-th envelope recv returned on the side facing s is the n-th s sent
ReceivedNth(s, n) ==
    IF Len(quic[Other(s)].delivered) >= n /\ Len(quic[s].sent) >= n
    THEN quic[Other(s)].delivered[n] = quic[s].sent[n]
    ELSE FALSE

\* C29: between the QuicConnections of connect and accept, every envelope
\* one side sent is eventually returned by recv on the other side, in the
\* order sent.
C29_SentIsEventuallyReceivedInOrder ==
    \A s \in Sides : \A n \in 1..MaxSent : SentNth(s, n) ~> ReceivedNth(s, n)

(***************************************************************************)
(* Claims on identity loading (SpecIdentity)                               *)
(***************************************************************************)
\* the step is a load of the identity of some store
IsLoad(l, l2) == l2.kind = "load_identity" /\ (l.kind = "load_identity" => l2 # l)

\* the file exists and does not hold what the store's writer produces
Malformed(w, file) ==
    /\ file.exists
    /\ \A key \in FreshKeys :
          file # (IF w = "teambook" THEN SaveToFile(key) ELSE NodeIdentityToBytes(key))

\* C30: loading an identity whose file exists but is malformed fails with
\* an error, leaves the file as it is and puts no identity in use; a new
\* key pair is generated and written only when no file exists.
C30_NeverSilentlyRegenerates ==
    [][IsLoad(last, last') =>
         LET w == last'.value.store IN
         /\ Malformed(w, identity_file[w]) =>
               /\ last'.value.result.kind = "Err"
               /\ identity_file'[w] = identity_file[w]
               /\ active_identity'[w] = active_identity[w]
         /\ (last'.value.result.newly_created \/ identity_file'[w] # identity_file[w]) =>
               ~identity_file[w].exists
      ]_vars

(***************************************************************************)
(* Claims on the CRDT primitives (SpecLww, SpecGCounter)                   *)
(***************************************************************************)
\* the later write of two: higher timestamp, on a tie the larger node id
LaterWrite(a, b) ==
    \/ a.timestamp > b.timestamp
    \/ a.timestamp = b.timestamp /\ ByteLexGreater(a.node_id, b.node_id)

\* C31: for the registers two replicas hold, merge keeps the write with the
\* higher timestamp and on a tie the one with the larger node id; merging a
\* register with itself changes nothing; and whichever replica merges the
\* other's register, both results are the same value, timestamp and node id.
C31_LwwMergeConverges ==
    \A r, o \in Replicas :
        (lww[r] # NoRegister /\ lww[o] # NoRegister) =>
            /\ LaterWrite(lww[o], lww[r]) => LwwMergeStep(lww[r], lww[o]) = lww[o]
            /\ LaterWrite(lww[r], lww[o]) => LwwMergeStep(lww[r], lww[o]) = lww[r]
            /\ LwwMergeStep(lww[r], lww[r]) = lww[r]
            /\ LwwMergeStep(lww[r], lww[o]) = LwwMergeStep(lww[o], lww[r])

\* the count a counter holds for a node id, none being 0
CountOf(counts, id) == IF id \in DOMAIN counts THEN counts[id] ELSE 0

Larger(a, b) == IF a >= b THEN a ELSE b

\* the counters of the replicas agree count by count
SameCounts(a, b) ==
    \A r \in CounterReplicas : CountOf(a, NodeIdBytes(r)) = CountOf(b, NodeIdBytes(r))

\* C32: merge takes the maximum per origin and is idempotent, commutative
\* and associative; value() is the sum of the counts; replicas that merged
\* each other's counter, in either order, report the same value(); and no
\* increment or merge ever lowers a replica's value().
C32_GCounterLaws ==
    \A a, b, c \in { gcounter[r] : r \in CounterReplicas } :
        /\ \A r \in CounterReplicas :
              CountOf(GCounterMerge(a, b), NodeIdBytes(r))
                  = Larger(CountOf(a, NodeIdBytes(r)), CountOf(b, NodeIdBytes(r)))
        /\ DOMAIN GCounterMerge(a, b) = DOMAIN a \cup DOMAIN b
        /\ GCounterMerge(a, a) = a
        /\ GCounterMerge(a, b) = GCounterMerge(b, a)
        /\ GCounterMerge(GCounterMerge(a, b), c) = GCounterMerge(a, GCounterMerge(b, c))
        /\ GCounterValue(a) = CountOf(a, NodeIdBytes(1)) + CountOf(a, NodeIdBytes(2))
                                  + CountOf(a, NodeIdBytes(3))
        /\ GCounterValue(GCounterMerge(a, b)) = GCounterValue(GCounterMerge(b, a))
        /\ GCounterValue(GCounterMerge(a, b))
              = GCounterValue(GCounterMerge(b, GCounterMerge(a, b)))

C32_ValueNeverDecreases ==
    \A r \in CounterReplicas : GCounterValue(gcounter'[r]) >= GCounterValue(gcounter[r])

C32_GCounterMerge == [][C32_ValueNeverDecreases]_vars /\ []C32_GCounterLaws

\* two replicas that counted on their own have merged each other's counter
\* and a third holds yet another count
C32_Witness ==
    /\ last.kind = "gcounter_merge"
    /\ gcounter[1] = gcounter[2]
    /\ Cardinality(DOMAIN gcounter[1]) >= 2
    /\ GCounterValue(gcounter[1]) >= 3
    /\ gcounter[3] # gcounter[1]
    /\ gcounter[3] # EmptyMap

(***************************************************************************)
(* Claims on the locks (SpecLocks, SpecFederationLocks)                    *)
(***************************************************************************)
\* the task is at a point where it is suspended or may be: it awaits a lock
\* or a file operation
AtSuspensionPoint(t) == AtOp(t, "acquire") \/ AtOp(t, "io")

\* C33: every task holds at most one lock at a time, and holds none while
\* it waits to acquire another lock or awaits file I/O.
C33_NoLockHeldAcrossSuspension ==
    \A t \in Tasks :
        /\ Cardinality(HeldBy(locks, t)) <= 1
        /\ AtSuspensionPoint(t) => HeldBy(locks, t) = {}

\* C36: under a fair scheduler every call that was begun on FederationState
\* returns.
C36_EveryCallReturns ==
    \A t \in Tasks : (tasks[t].call # "idle") ~> (tasks[t].call = "idle")

(***************************************************************************)
(* Claims on concurrent push requests (SpecPushRace)                       *)
(***************************************************************************)
\* C34: whatever the interleaving of concurrent process_push calls, an
\* event (a content id) is counted as accepted at most once over all calls.
C34_AcceptedAtMostOnce ==
    \A content_id \in DOMAIN accepts : accepts[content_id] <= 1

(***************************************************************************)
(* Claims on concurrent process_incoming calls (SpecIncomingRace)          *)
(***************************************************************************)
\* C35: of the calls made with one envelope id that was not seen before,
\* exactly one returns Process and every other one AlreadySeen, whatever the
\* interleaving of the checks and the inserts.
C35_ExactlyOneProcess ==
    \A id \in DOMAIN decisions :
        /\ decisions[id].process <= 1
        /\ decisions[id].process + decisions[id].already >= 2
              => decisions[id].process = 1

(***************************************************************************)
(* Claims on the sync cursor (SpecResume)                                  *)
(***************************************************************************)
\* C37: a peer's last_synced_seq is never greater than the highest sequence
\* number whose event a pull response of that peer has delivered, so the
\* next pull's since_seq still covers what was not delivered; and it never
\* decreases.
C37_CursorWithinDelivered ==
    \A h \in DOMAIN peers :
        h \in DOMAIN delivered => peers[h].last_synced_seq <= delivered[h]

C37_CursorNeverDecreases ==
    \A h \in DOMAIN peers :
        h \in DOMAIN peers' => peers'[h].last_synced_seq >= peers[h].last_synced_seq

C37_SyncPositionResumable ==
    []C37_CursorWithinDelivered /\ [][C37_CursorNeverDecreases]_vars

(***************************************************************************)
(* Claims on the stamping of outbound envelopes                            *)
(***************************************************************************)
\* a step in which thread t's prepare_outbound ran its tick()
TickBy(t) == preparing[t] = NoEnvelope /\ preparing'[t] # NoEnvelope

\* the own entry went up by exactly one, no other entry changed, and the
\* envelope carries the resulting clock, this node as origin and the default
\* TTL only in place of a Federated envelope's TTL 0
C38_StampedByOne ==
    /\ last'.kind # "prepare_outbound_panic"
    /\ \A t \in Threads :
          TickBy(t) =>
            LET msg == last'.value.msg
                env == preparing'[t]
            IN
            /\ VcGet(vclock, "self") # U64_MAX
            /\ vclock' = MapInsert(vclock, "self", VcGet(vclock, "self") + 1)
            /\ env.clock = vclock'
            /\ env.origin = "self"
            /\ env.ttl = IF msg.layer = "Federated" /\ msg.ttl = 0
                         THEN DEFAULT_TTL ELSE msg.ttl
            /\ env.layer = msg.layer /\ env.payload = msg.payload
    /\ last'.kind = "prepare_outbound" =>
          last'.value.returned = preparing[last'.value.thread]

\* no two stamped clocks carry the same value of the own entry
C38_DistinctOwnEntries ==
    \A i, j \in 1..Len(stamped) : i # j => stamped[i] # stamped[j]

\* C38: every call to prepare_outbound, for every layer and also when the
\* target queue is full, increments the manager's own vector-clock entry by
\* exactly one, leaves all other entries unchanged, and returns the envelope
\* with clock equal to the resulting vector clock, origin equal to the
\* manager's node_id, and ttl replaced by default_ttl only when the layer is
\* Federated and ttl was 0; under concurrent calls the clocks stamped on the
\* returned envelopes have pairwise distinct values of the own entry.
C38_PrepareOutboundStamps ==
    [][C38_StampedByOne]_vars /\ []C38_DistinctOwnEntries

(***************************************************************************)
(* Claims on get_messages_since                                            *)
(***************************************************************************)
\* every component of a is at most that of b, absent entries read as 0
ClockLeq(a, b) == \A n \in DOMAIN a : a[n] <= VcGet(b, n)

\* clock c is causally after since
CausallyAfter(c, since) == ClockLeq(since, c) /\ ~ClockLeq(c, since)

\* C39: get_messages_since(layer, since, limit) returns only data newer than
\* the requester's clock: no stored message whose vector clock is
\* componentwise <= since, and, up to limit and in ascending timestamp
\* order, the stored messages of that layer whose clock is causally after
\* since (with an empty since clock, the stored messages of that layer).
C39_OnlyNewerData ==
    last.kind = "get_messages_since" =>
        LET v == last.value
            newer == { id \in DOMAIN messages :
                         /\ messages[id].layer = v.layer
                         /\ CausallyAfter(messages[id].clock, v.since) }
        IN
        /\ \A i \in 1..Len(v.result) :
              /\ v.result[i].layer = v.layer
              /\ ~ClockLeq(v.result[i].clock, v.since)
        /\ \A i, j \in 1..Len(v.result) :
              i < j => v.result[i].timestamp <= v.result[j].timestamp
        /\ Cardinality(newer) <= v.limit =>
              \A id \in newer : \E i \in 1..Len(v.result) : v.result[i] = messages[id]

(***************************************************************************)
(* Claims on the EventPushResponse                                         *)
(***************************************************************************)
\* every event is counted once, and errors lists the rejected events by
\* their index in the batch, in increasing order
ResponseAccounts(request, response) ==
    /\ response.accepted + response.duplicates + response.rejected = Len(request)
    /\ Len(response.errors) = response.rejected
    /\ \A k \in 1..Len(response.errors) :
          /\ response.errors[k].index \in 0..(Len(request) - 1)
          /\ response.errors[k].content_id =
                ContentIdHex(request[response.errors[k].index + 1])
    /\ \A k, l \in 1..Len(response.errors) :
          k < l => response.errors[k].index < response.errors[l].index
    /\ \A i \in 1..Len(request) :
          SignedEventVerify(request[i]) # "Ok" =>
              \E k \in 1..Len(response.errors) : response.errors[k].index = i - 1

\* the batch [E, E] of one valid event
TwiceTheSame(request) ==
    /\ Len(request) = 2
    /\ request[1] = request[2]
    /\ request[1].event_bytes # EmptyBytes
    /\ SignedEventVerify(request[1]) = "Ok"

OnceAcceptedOnceDuplicate(response) ==
    response.accepted = 1 /\ response.duplicates = 1 /\ response.rejected = 0

\* C40: in every EventPushResponse each event of the request is counted in
\* exactly one of accepted, duplicates and rejected, so their sum is the
\* number of events in the batch; errors holds exactly one entry per
\* rejected event, carrying that event's index in the batch, in increasing
\* index order. In particular a batch [E, E] of a fresh valid event E yields
\* accepted=1, duplicates=1, rejected=0.
C40_EveryEventCountedOnce ==
    last.kind = "push_response" =>
        /\ ResponseAccounts(last.value.request, last.value.response)
        /\ (TwiceTheSame(last.value.request) /\ last.value.began # "stale") =>
              OnceAcceptedOnceDuplicate(last.value.response)

\* C40, amended: the counts and errors as above; a batch [E, E] of a valid
\* event E that was new and from a known peer when the call began yields
\* accepted=1, duplicates=1, rejected=0 when no other call changed the peer
\* registry or the dedup cache while the batch was processed.
C40_CountedOnceWhenUndisturbed ==
    last.kind = "push_response" =>
        /\ ResponseAccounts(last.value.request, last.value.response)
        /\ (TwiceTheSame(last.value.request) /\ last.value.began = "undisturbed") =>
              OnceAcceptedOnceDuplicate(last.value.response)

\* a call answered [E, E] with 1/1/0 while another call was rejecting an event
C40_Witness ==
    /\ last.kind = "push_response"
    /\ TwiceTheSame(last.value.request)
    /\ last.value.began = "undisturbed"
    /\ OnceAcceptedOnceDuplicate(last.value.response)
    /\ \E t \in Pushers : pushers[t].rejected = 1

====
